---- MODULE Spec2Model ----
(***************************************************************************)
(* Settlement orchestrator of the Ki0xk kiosk: the Recovery Record (PIN    *)
(* wallet) store of src/src/settlement.ts and the operations that read and *)
(* rewrite it.  Every invocation is a chain of synchronous sections cut at *)
(* the awaited external calls (accounting client, bridge kit); each        *)
(* section is one action, and the awaited call's outcome is chosen by the  *)
(* environment when the invocation resumes.                                 *)
(***************************************************************************)
EXTENDS Integers, Sequences, FiniteSets, TLC

VARIABLES store, sessions, clock, pc, loc, res

vars == <<store, sessions, clock, pc, loc, res>>

----------------------------------------------------------------------------
(* Bounds of the model                                                     *)

MaxWallets == 2
MaxSessions == 1
MaxClock == 4
MaxFeeAmount == 250000
MaxSteps == 2

(* Input domains                                                           *)

Procs == {"inv1", "inv2"}
None == "undefined"
NoTime == 0
PinSeq == <<"100000", "999999">>
WalletIdSeq == <<"0A1B2C", "D9C8B7">>
Pins == {PinSeq[i] : i \in 1..Len(PinSeq)}
WalletIds == {WalletIdSeq[i] : i \in 1..Len(WalletIdSeq)}
Destinations == {"0xabc"}
ChainKeys == {"base", "BASE", "solana"}
Amounts == {100}
DepositAmounts == {100, 250}
SessionIdSeq == <<"S1A2B3C4D", "S9F8E7D6C">>
SessionIds == {SessionIdSeq[i] : i \in 1..Len(SessionIdSeq)}

----------------------------------------------------------------------------
(* Chains: src/src/arc/chains.ts                                           *)

SUPPORTED_CHAINS ==
  {"arc", "base", "ethereum", "arbitrum", "polygon", "optimism", "avalanche", "linea"}

toLowerCase(key) == IF key = "BASE" THEN "base" ELSE key

(* The key taken as resolved without looking it up.                        *)
getChainByKeyUnchecked(key) == toLowerCase(key)

getChainByKey(key) == IF toLowerCase(key) \in SUPPORTED_CHAINS THEN toLowerCase(key) ELSE None

----------------------------------------------------------------------------
(* PIN wallet helpers: src/src/settlement.ts                               *)

hashPin(pin) == <<"sha256", pin>>

NoHash == <<"sha256", None>>

loadPinWallets == store

(* A random draw either repeats a value some record already carries or is  *)
(* a new one; new values are named in their order of first appearance.     *)
Draw(seq, used) ==
  LET new == {i \in 1..Len(seq) : seq[i] \notin used}
  IN  used \cup (IF new = {} THEN {} ELSE {seq[CHOOSE i \in new : \A j \in new : i <= j]})

generatePin == Draw(PinSeq, {PinSeq[i] : i \in {j \in 1..Len(PinSeq) :
                                \E k \in 1..Len(store) : store[k].pinHash = <<"sha256", PinSeq[j]>>}})

generateWalletId == Draw(WalletIdSeq, {store[k].id : k \in 1..Len(store)})

(* The object returned to the caller, { ...wallet, pin }, stored instead.   *)
NewWalletWithPin(id, pin, amount, destination, targetChain, status, now) ==
  [id |-> id, pinHash |-> hashPin(pin), pin |-> pin, amount |-> amount,
   createdAt |-> now, destination |-> destination, targetChain |-> targetChain,
   status |-> status, bridgeAttempts |-> 0, lastBridgeError |-> None,
   lastBridgeAttempt |-> NoTime, bridgeTxHash |-> None, settledAt |-> NoTime]

NewWallet(id, pin, amount, destination, targetChain, status, now) ==
  [id |-> id, pinHash |-> hashPin(pin), pin |-> None, amount |-> amount,
   createdAt |-> now, destination |-> destination, targetChain |-> targetChain,
   status |-> status, bridgeAttempts |-> 0, lastBridgeError |-> None,
   lastBridgeAttempt |-> NoTime, bridgeTxHash |-> None, settledAt |-> NoTime]

----------------------------------------------------------------------------
(* Fees: src/src/arc/fees.ts.  Amounts are whole numbers of cents; a fee    *)
(* breakdown is in millionths (the six decimals of toFixed(6)).  NaN is     *)
(* what parseFloat makes of a string that is no number: it is named by a    *)
(* number no amount takes, and every comparison treats it apart.            *)

NaN == 0 - 1000000000

isNaN(x) == x = NaN

MicroPerCent == 10000

FEE_RATE_INVERSE == 100000

(* toFixed(6) of n / d, in millionths: to the nearest, halves away from 0.  *)
RoundDiv(n, d) ==
  IF n >= 0 THEN (2 * n + d) \div (2 * d) ELSE 0 - ((2 * (0 - n) + d) \div (2 * d))

(* toFixed(6) of n - n / d, in millionths.                                  *)
RoundNet(n, d) ==
  LET m == IF n >= 0 THEN n ELSE 0 - n
      r == m - (m \div d) - (IF 2 * (m % d) > d THEN 1 ELSE 0)
  IN  IF n >= 0 THEN r ELSE 0 - r

(* The fee cut off after the sixth decimal instead of rounded.              *)
FeeTruncated(a, up) == a \div FEE_RATE_INVERSE

(* parseFloat((amount * FEE_RATE).toFixed(6)), line 29, for an amount of a  *)
(* millionths: the nearest millionth.  When a * FEE_RATE lies halfway       *)
(* between two millionths the double that stands for it lies a hair above   *)
(* or below, and toFixed follows the double: up says which.                 *)
FeeMicro(a, up) ==
  LET q == a \div FEE_RATE_INVERSE
      r == a % FEE_RATE_INVERSE
  IN  IF 2 * r > FEE_RATE_INVERSE \/ (2 * r = FEE_RATE_INVERSE /\ up) THEN q + 1 ELSE q

(* parseFloat((amount - fee).toFixed(6)), line 30, likewise.                *)
NetMicro(a, up) ==
  LET q == a \div FEE_RATE_INVERSE
      r == a % FEE_RATE_INVERSE
  IN  IF 2 * r > FEE_RATE_INVERSE \/ (2 * r = FEE_RATE_INVERSE /\ ~up) THEN a - q - 1
      ELSE a - q

NoFee == [grossAmount |-> 0, fee |-> 0, netAmount |-> 0, set |-> FALSE]

(* calculateFee, lines 23-33, for a positive amount given in millionths.    *)
calculateFeeMicro(a, feeUp, netUp) ==
  [grossAmount |-> a, fee |-> FeeMicro(a, feeUp), netAmount |-> NetMicro(a, netUp),
   set |-> TRUE]

(* calculateFee, lines 23-33: no check of the amount; NaN runs through the  *)
(* arithmetic.                                                              *)
calculateFee(amount) ==
  IF isNaN(amount)
    THEN [grossAmount |-> NaN, fee |-> NaN, netAmount |-> NaN, set |-> TRUE]
    ELSE [grossAmount |-> amount * MicroPerCent,
          fee |-> RoundDiv(amount * MicroPerCent, FEE_RATE_INVERSE),
          netAmount |-> RoundNet(amount * MicroPerCent, FEE_RATE_INVERSE),
          set |-> TRUE]

----------------------------------------------------------------------------
(* Bridge: src/unnamed/part_000 (arc/bridge.ts)                             *)

Step(name, state, txHash) == [name |-> name, state |-> state, txHash |-> txHash]

KitThrows == [threw |-> TRUE, steps |-> <<>>, txHash |-> None]

KitOutcomes ==
  { KitThrows,
    [threw |-> FALSE, txHash |-> None,
     steps |-> <<Step("burn", "success", "0xtx"), Step("mint", "success", "0xtx")>>],
    [threw |-> FALSE, txHash |-> None,
     steps |-> <<Step("burn", "success", "0xtx"), Step("mint", "failed", None)>>],
    [threw |-> FALSE, txHash |-> None,
     steps |-> <<Step("burn", "failed", None)>>] }

NoStep == Step(None, None, None)

(* What kit.bridge may resolve with: up to MaxSteps steps, each with a name, *)
(* a state and perhaps a transaction hash, and perhaps a hash of its own.   *)
StepValues ==
  {Step(name, state, txHash) : name \in {"burn", "mint"},
                               state \in {"success", "failed", "pending"},
                               txHash \in {None, "0xtx"}}

KitResults ==
  {KitThrows} \cup
  {[threw |-> FALSE, steps |-> steps, txHash |-> txHash] :
     steps \in UNION {[1..n -> StepValues] : n \in 0..MaxSteps},
     txHash \in {None, "0xkit"}}

NoKit == [threw |-> FALSE, steps |-> <<>>, txHash |-> None]

NoBridgeConfig == [amount |-> 0, set |-> FALSE]

(* The kit is handed the amount as bridgeToChain received it.               *)
bridgeConfigGross(amount) == [amount |-> calculateFee(amount).grossAmount, set |-> TRUE]

(* Lines 175 and 192-203: bridgeToChain takes the fee off the amount it is  *)
(* given and hands the kit the net amount.  The amount is the decimal       *)
(* string of a number, named here by that number, in millionths.            *)
bridgeConfig(amount) == [amount |-> calculateFee(amount).netAmount, set |-> TRUE]

RECURSIVE FindMint(_, _)
FindMint(steps, i) ==
  IF i > Len(steps) THEN NoStep
  ELSE IF steps[i].name = "mint" /\ steps[i].state = "success" THEN steps[i]
  ELSE FindMint(steps, i + 1)

RECURSIVE LastSuccess(_, _)
LastSuccess(steps, i) ==
  IF i < 1 THEN NoStep
  ELSE IF steps[i].state = "success" THEN steps[i]
  ELSE LastSuccess(steps, i - 1)

NoBridgeResult == [success |-> FALSE, txHash |-> None, txStatus |-> None, error |-> None]

BridgeKitResult(kit) ==
  LET mintStep == FindMint(kit.steps, 1)
      lastSuccessStep == LastSuccess(kit.steps, Len(kit.steps))
      relevantStep == IF mintStep # NoStep THEN mintStep ELSE lastSuccessStep
      txHash == IF relevantStep.txHash # None THEN relevantStep.txHash ELSE kit.txHash
      txStatus == IF relevantStep.state = "success" THEN "success"
                  ELSE IF relevantStep.state = "failed" THEN "reverted" ELSE "pending"
  IN  IF kit.threw
        THEN [success |-> FALSE, txHash |-> None, txStatus |-> None, error |-> "kit error"]
      ELSE IF txHash = None
        THEN [success |-> TRUE, txHash |-> None, txStatus |-> "pending", error |-> None]
      ELSE [success |-> txStatus \in {"success", "pending"}, txHash |-> txHash,
            txStatus |-> txStatus, error |-> None]

BridgeChainSupported(targetChainKey) == targetChainKey \in SUPPORTED_CHAINS

----------------------------------------------------------------------------
(* getKioskBalances: src/src/settlement.ts 81-122.  The accounting balance *)
(* is a raw amount in millionths and its two-decimal rendering, in cents;   *)
(* the bridge-side balance is in cents.                                     *)

(* Line 83: the balance the snapshot starts from.                           *)
ZeroYellow == [asset |-> "ytest.usd", amount |-> 0, raw |-> 0]

(* Lines 98-105: the entry of the fixed asset; a missing amount counts as   *)
(* "0", and amount is (Number(raw) / 1_000_000).toFixed(2).                 *)
YellowOf(rawAmount) ==
  [asset |-> "ytest.usd", amount |-> RoundDiv(rawAmount, MicroPerCent), raw |-> rawAmount]

(* getArcBalance, part_000 122-156: "0.00" from the try block and from the  *)
(* catch block alike.                                                       *)
ArcUsdc(ok) == 0

NoBalances == [yellow |-> ZeroYellow, arc |-> 0, timestamp |-> 0, set |-> FALSE]

----------------------------------------------------------------------------
(* Invocation state.  loc[p] holds the locals of the invocation p is       *)
(* running (wallets is the array it loaded, idx the position of the record *)
(* it holds a reference to); res[p] is what its last invocation returned   *)
(* or threw.                                                                *)

IdleLoc ==
  [op |-> "none", wallets |-> <<>>, idx |-> 0, pin |-> None, destination |-> None,
   chain |-> None, channelId |-> None, bridgeResult |-> NoBridgeResult,
   errorMsg |-> None, pending |-> <<>>, k |-> 0, succeeded |-> 0, failed |-> 0,
   sessions |-> <<>>, sidx |-> 0, sessionId |-> None, amount |-> 0, walletId |-> None,
   yellowBalance |-> ZeroYellow, bridgeConfig |-> NoBridgeConfig, channelLog |-> None,
   sessionWrites |-> {TRUE}, kit |-> NoKit]

NoRes ==
  [op |-> "none", threw |-> FALSE, error |-> None, success |-> FALSE,
   yellowRecorded |-> FALSE, id |-> None, pin |-> None, idx |-> 0,
   attempted |-> 0, succeeded |-> 0, failed |-> 0, chain |-> None, amount |-> 0,
   sessionId |-> None, fee |-> NoFee, balances |-> NoBalances, logged |-> None,
   bridgeConfig |-> NoBridgeConfig, bridgeResult |-> NoBridgeResult, kit |-> NoKit]

Thrown(op, msg) == [NoRes EXCEPT !.op = op, !.threw = TRUE, !.error = msg]

Init ==
  /\ store = <<>>
  /\ sessions = <<>>
  /\ clock = 0
  /\ pc = [p \in Procs |-> "idle"]
  /\ loc = [p \in Procs |-> IdleLoc]
  /\ res = [p \in Procs |-> NoRes]

(* An invocation begins: time has passed since the previous one, and       *)
(* Date.now() reads the new time until the invocation returns.              *)
Begin(p) ==
  /\ pc[p] = "idle"
  /\ clock < MaxClock
  /\ clock' = clock + 1

(* The invocation returns r (or throws it) to its caller.                   *)
Return(p, r) ==
  /\ pc' = [pc EXCEPT ![p] = "idle"]
  /\ loc' = [loc EXCEPT ![p] = IdleLoc]
  /\ res' = [res EXCEPT ![p] = r]

(* The invocation goes on to await the call named by label.                 *)
Goto(p, l, label) ==
  /\ pc' = [pc EXCEPT ![p] = label]
  /\ loc' = [loc EXCEPT ![p] = l]
  /\ res' = [res EXCEPT ![p] = NoRes]

(* An awaited call returned and the next one is awaited: nothing is saved.  *)
Await(p, l, label) ==
  /\ Goto(p, l, label)
  /\ UNCHANGED <<store, sessions, clock>>

(* The invocation throws out of its first synchronous section.              *)
Reject(p, op, msg) ==
  /\ Return(p, Thrown(op, msg))
  /\ UNCHANGED <<store, sessions>>

(* A session operation throws out of its first synchronous section; the   *)
(* result keeps the arguments and the position of the session found.        *)
RejectSession(p, op, msg, sessionId, sidx, amount) ==
  /\ Return(p, [Thrown(op, msg) EXCEPT !.sessionId = sessionId, !.idx = sidx,
                                       !.amount = amount])
  /\ UNCHANGED <<store, sessions>>

(* A save that keeps the records appended to the store since the load.     *)
savePinWalletsMerged(wallets) ==
  store' = wallets \o SubSeq(store, Len(wallets) + 1, Len(store))

(* A save that keeps only the records still open.                          *)
StillOpen(w) == w.status # "SETTLED"

savePinWalletsOpen(wallets) == store' = SelectSeq(wallets, StillOpen)

savePinWallets(wallets) == store' = wallets

saveSessions(list) == sessions' = list

(* if (!clearNode.isAuthenticated): the singleton client's flag decides     *)
(* which call the invocation awaits first.                                  *)
FirstCall(isAuthenticated, after) == IF isAuthenticated THEN after ELSE "connect"

----------------------------------------------------------------------------
(* settleToChain: src/src/settlement.ts 154-291                             *)

SettleFailureUpdate(w, err, now) ==
  [w EXCEPT !.bridgeAttempts = @ + 1, !.lastBridgeError = err, !.lastBridgeAttempt = now]

SettledUpdate(w, txHash, now) ==
  [w EXCEPT !.status = "SETTLED", !.bridgeTxHash = txHash, !.settledAt = now]

(* Lines 176-186: the PIN backup of the request.                            *)
SettleBackup(id, pin, amount, destination, targetChainKey, now) ==
  NewWallet(id, pin, amount, destination, targetChainKey, "PENDING_BRIDGE", now)

(* The backup pushed in memory but saved only with the outcome.             *)
SettleBackupUnsaved(wallets) == SubSeq(wallets, 1, Len(wallets) - 1)

(* Line 187: what the store holds once the backup has been pushed.          *)
SettleBackupSaved(wallets) == wallets

(* Lines 159-196: chain check, PIN backup pushed and saved, then the        *)
(* isAuthenticated read.                                                    *)
SettleStartWith(p, amounts) ==
  /\ Begin(p)
  /\ \E destination \in Destinations, targetChainKey \in ChainKeys, amount \in amounts,
        id \in generateWalletId, pin \in generatePin, isAuthenticated \in BOOLEAN :
       IF getChainByKey(targetChainKey) = None
         THEN /\ Return(p, [Thrown("settleToChain", "Unsupported chain")
                               EXCEPT !.chain = targetChainKey, !.amount = amount])
              /\ UNCHANGED <<store, sessions>>
         ELSE /\ Len(store) < MaxWallets
              /\ LET pinWallet == SettleBackup(id, pin, amount, destination,
                                               targetChainKey, clock')
                     wallets == Append(loadPinWallets, pinWallet)
                 IN  /\ savePinWallets(SettleBackupSaved(wallets))
                     /\ Goto(p, [IdleLoc EXCEPT !.op = "settleToChain", !.wallets = wallets,
                                   !.idx = Len(wallets), !.pin = pin, !.walletId = id,
                                   !.amount = amount,
                                   !.destination = destination, !.chain = targetChainKey],
                             FirstCall(isAuthenticated, "createChannel"))
              /\ UNCHANGED sessions

(* The sweep's attempt cap applied to the manual path as well.              *)
ClaimFailureCapped(w, err, now) ==
  LET w2 == SettleFailureUpdate(w, err, now)
  IN  [w2 EXCEPT !.status = IF w2.bridgeAttempts >= 3 THEN "FAILED" ELSE "PENDING_BRIDGE"]

SettleStart(p) == SettleStartWith(p, Amounts)

(* Lines 248-252: bookkeeping of a bridge failure in settleToChain.         *)
(* Lines 496-501 and 524-527: the same in claimPinWallet, which also        *)
(* writes the status.                                                       *)
ClaimFailureUpdate(w, err, now) ==
  [SettleFailureUpdate(w, err, now) EXCEPT !.status = "PENDING_BRIDGE"]

FailureUpdate(op, w, err, now) ==
  IF op = "claimPinWallet" THEN ClaimFailureUpdate(w, err, now)
  ELSE SettleFailureUpdate(w, err, now)

(* Lines 236-262 (settleToChain) and 484-509 (claimPinWallet): the record   *)
(* is updated from the bridge result, the collection saved and the result   *)
(* returned.                                                                *)
(* The success message names feeBreakdown.netAmount of lines 164 and 431,   *)
(* kept in the result's fee.                                                *)
Finalize(p, l) ==
  LET w == l.wallets[l.idx]
      br == l.bridgeResult
      fallback == ~br.success /\ l.op = "settleToChain"
      updated == IF br.success THEN SettledUpdate(w, br.txHash, clock)
                 ELSE FailureUpdate(l.op, w, br.error, clock)
  IN  /\ savePinWallets([l.wallets EXCEPT ![l.idx] = updated])
      /\ Return(p, [NoRes EXCEPT !.op = l.op, !.success = br.success,
                      !.yellowRecorded = TRUE, !.idx = l.idx, !.error = br.error,
                      !.bridgeConfig = l.bridgeConfig,
                      !.fee = IF br.success THEN calculateFee(l.amount) ELSE NoFee,
                      !.id = IF fallback THEN w.id ELSE None,
                      !.pin = IF fallback THEN l.pin ELSE None])
      /\ UNCHANGED <<sessions, clock>>

(* Lines 276-289 (settleToChain) and 524-534 (claimPinWallet): the catch    *)
(* block's bookkeeping after its best-effort channel close.                 *)
CatchEnd(p, l) ==
  LET w == l.wallets[l.idx]
      fallback == l.op = "settleToChain"
      updated == FailureUpdate(l.op, w, l.errorMsg, clock)
  IN  /\ savePinWallets([l.wallets EXCEPT ![l.idx] = updated])
      /\ Return(p, [NoRes EXCEPT !.op = l.op, !.success = FALSE, !.yellowRecorded = FALSE,
                      !.idx = l.idx, !.error = l.errorMsg,
                      !.bridgeConfig = l.bridgeConfig,
                      !.id = IF fallback THEN w.id ELSE None,
                      !.pin = IF fallback THEN l.pin ELSE None])
      /\ UNCHANGED <<sessions, clock>>

(* Lines 263-275 / 510-522: a throw inside the try block lands in the catch *)
(* block, which awaits closeChannel when a channel was opened.              *)
OrchestratorCatch(p, l, msg) ==
  IF l.channelId # None
    THEN Await(p, [l EXCEPT !.errorMsg = msg], "catchClose")
    ELSE CatchEnd(p, [l EXCEPT !.errorMsg = msg])

InOrchestrator(p) == loc[p].op \in {"settleToChain", "claimPinWallet"}

(* bridgeToChain(), line 210 / 459: throws on a key SUPPORTED_CHAINS lacks, *)
(* otherwise returns what it makes of the kit's outcome.                    *)
Bridge(p) ==
  /\ pc[p] = "bridge" /\ InOrchestrator(p)
  /\ LET l == loc[p]
     IN  IF ~BridgeChainSupported(l.chain)
           THEN OrchestratorCatch(p, l, "Unsupported chain")
           ELSE \E kit \in KitOutcomes :
                  LET amount == IF l.op = "claimPinWallet" THEN l.wallets[l.idx].amount
                                ELSE l.amount
                      l2 == [l EXCEPT !.bridgeResult = BridgeKitResult(kit),
                                      !.bridgeConfig = bridgeConfig(amount)]
                  IN  IF l2.channelId # None
                        THEN Await(p, l2, "channelExists")
                        ELSE Finalize(p, l2)

(* clearNode.channelExists(), line 219 / 468                                *)
ChannelExists(p) ==
  /\ pc[p] = "channelExists" /\ InOrchestrator(p)
  /\ LET l == loc[p]
     IN  \E outcome \in {"true", "false", "throw"} :
           CASE outcome = "true" -> Await(p, l, "closeChannel")
             [] outcome = "false" -> Finalize(p, l)
             [] outcome = "throw" -> OrchestratorCatch(p, l, "clearnode error")

(* clearNode.closeChannel() in the inner try, lines 221-229 / 470-478: a    *)
(* throw is logged and swallowed.                                           *)
CloseChannel(p) ==
  /\ pc[p] = "closeChannel" /\ InOrchestrator(p)
  /\ \E ok \in BOOLEAN : Finalize(p, loc[p])

(* clearNode.closeChannel() in the catch block, lines 268-275 / 515-522     *)
CatchClose(p) ==
  /\ pc[p] = "catchClose" /\ InOrchestrator(p)
  /\ \E ok \in BOOLEAN : CatchEnd(p, loc[p])

----------------------------------------------------------------------------
(* createPinWallet: src/src/settlement.ts 371-389                           *)

PinWalletCreated(id, pin, amount, now) ==
  Append(loadPinWallets, NewWallet(id, pin, amount, None, None, "PENDING", now))

(* createPinWallet called with an amount of the given set.  writeFileSync   *)
(* under savePinWallets may throw, and createPinWallet with it.             *)
CreatePinWalletWith(p, amounts) ==
  /\ Begin(p)
  /\ Len(store) < MaxWallets
  /\ \E amount \in amounts, id \in generateWalletId, pin \in generatePin,
        written \in BOOLEAN :
       IF written
         THEN /\ savePinWallets(PinWalletCreated(id, pin, amount, clock'))
              /\ Return(p, [NoRes EXCEPT !.op = "createPinWallet", !.success = TRUE,
                              !.id = id, !.pin = pin, !.idx = Len(store) + 1,
                              !.amount = amount])
         ELSE /\ Return(p, [Thrown("createPinWallet", "write failed")
                               EXCEPT !.amount = amount])
              /\ UNCHANGED store
  /\ UNCHANGED sessions

CreatePinWallet(p) == CreatePinWalletWith(p, Amounts)

----------------------------------------------------------------------------
(* claimPinWallet: src/src/settlement.ts 401-536                            *)

(* The lookup without its status filter.                                    *)
ClaimableAnyStatus(w, walletId) == w.id = walletId

(* Lines 408-410: the predicate of the lookup.                              *)
Claimable(w, walletId) ==
  w.id = walletId /\ (w.status = "PENDING" \/ w.status = "PENDING_BRIDGE")

(* Array.prototype.find: the first match, 0 when there is none.             *)
RECURSIVE FindWallet(_, _, _)
FindWallet(wallets, walletId, i) ==
  IF i > Len(wallets) THEN 0
  ELSE IF Claimable(wallets[i], walletId) THEN i
  ELSE FindWallet(wallets, walletId, i + 1)

(* The PIN check left out.                                                  *)
PinMatchesAny(pin, w) == TRUE

(* Line 417                                                                 *)
PinMatches(pin, w) == hashPin(pin) = w.pinHash

(* Lines 426-428: the claim's destination and chain written to the record.  *)
ClaimDestination(w, destination, targetChainKey) ==
  [w EXCEPT !.destination = destination, !.targetChain = targetChainKey]

(* Lines 412-424: the three throws before anything is written.  The result *)
(* keeps the arguments and the position of the record the lookup found.     *)
RejectClaim(p, msg, walletId, pin, idx, targetChainKey) ==
  /\ Return(p, [Thrown("claimPinWallet", msg) EXCEPT !.id = walletId, !.pin = pin,
                                                     !.idx = idx, !.chain = targetChainKey])
  /\ UNCHANGED <<store, sessions>>

(* Lines 407-445: lookup, PIN check, chain check, destination saved, then   *)
(* the isAuthenticated read.                                                *)
ClaimStart(p) ==
  /\ Begin(p)
  /\ \E walletId \in WalletIds, pin \in Pins, destination \in Destinations,
        targetChainKey \in ChainKeys, isAuthenticated \in BOOLEAN :
       LET wallets == loadPinWallets
           idx == FindWallet(wallets, walletId, 1)
       IN  IF idx = 0
             THEN RejectClaim(p, "Wallet not found or already claimed", walletId, pin, 0,
                              targetChainKey)
           ELSE IF ~PinMatches(pin, wallets[idx])
             THEN RejectClaim(p, "Invalid PIN", walletId, pin, idx, targetChainKey)
           ELSE IF getChainByKey(targetChainKey) = None
             THEN RejectClaim(p, "Unsupported chain", walletId, pin, idx, targetChainKey)
           ELSE LET updated == [wallets EXCEPT
                                  ![idx] = ClaimDestination(@, destination, targetChainKey)]
                IN  /\ savePinWallets(updated)
                    /\ Goto(p, [IdleLoc EXCEPT !.op = "claimPinWallet", !.wallets = updated,
                                  !.idx = idx, !.pin = pin, !.walletId = walletId,
                                  !.amount = wallets[idx].amount,
                                  !.destination = destination, !.chain = targetChainKey],
                            FirstCall(isAuthenticated, "createChannel"))
                    /\ UNCHANGED sessions

----------------------------------------------------------------------------
(* retryPendingBridges: src/src/settlement.ts 541-593                       *)

RetryEligibleUncapped(w) == w.status = "PENDING_BRIDGE"

RetryEligible(w) == w.status = "PENDING_BRIDGE" /\ w.bridgeAttempts < 3

(* Array.prototype.filter, as the positions of the records it keeps.        *)
RECURSIVE FilterPending(_, _)
FilterPending(wallets, i) ==
  IF i > Len(wallets) THEN <<>>
  ELSE IF RetryEligible(wallets[i]) THEN <<i>> \o FilterPending(wallets, i + 1)
  ELSE FilterPending(wallets, i + 1)

(* Line 555: records lacking destination or chain are skipped.              *)
RECURSIVE NextBridgeable(_, _, _)
NextBridgeable(wallets, pending, k) ==
  IF k > Len(pending) THEN k
  ELSE IF wallets[pending[k]].destination = None \/ wallets[pending[k]].targetChain = None
    THEN NextBridgeable(wallets, pending, k + 1)
  ELSE k

(* The failure branch without the threshold of three attempts.             *)
RetryFailureDeadLetter(w, err, now) ==
  [w EXCEPT !.bridgeAttempts = @ + 1, !.lastBridgeError = err,
            !.lastBridgeAttempt = now, !.status = "FAILED"]

(* Lines 574-582                                                            *)
RetryFailureUpdate(w, err, now) ==
  LET w2 == [w EXCEPT !.bridgeAttempts = @ + 1, !.lastBridgeError = err,
                      !.lastBridgeAttempt = now]
  IN  IF w2.bridgeAttempts >= 3 THEN [w2 EXCEPT !.status = "FAILED"] ELSE w2

(* The sweep returning its counts with nothing saved.                       *)
RetryEndUnsaved(p, l) ==
  /\ UNCHANGED store
  /\ Return(p, [NoRes EXCEPT !.op = "retryPendingBridges", !.success = TRUE,
                  !.attempted = Len(l.pending), !.succeeded = l.succeeded,
                  !.failed = l.failed, !.bridgeConfig = l.bridgeConfig])

(* Lines 586-592: the collection is saved once, after the loop.             *)
RetryEnd(p, l) ==
  /\ savePinWallets(l.wallets)
  /\ Return(p, [NoRes EXCEPT !.op = "retryPendingBridges", !.success = TRUE,
                  !.attempted = Len(l.pending), !.succeeded = l.succeeded,
                  !.failed = l.failed, !.bridgeConfig = l.bridgeConfig])

(* The for loop runs on to the next record it bridges, or to its end.       *)
RetryNext(p, l) ==
  LET k == NextBridgeable(l.wallets, l.pending, l.k)
  IN  IF k > Len(l.pending)
        THEN RetryEnd(p, l)
        ELSE Goto(p, [l EXCEPT !.k = k], "retryBridge") /\ UNCHANGED store

RetryStart(p) ==
  /\ Begin(p)
  /\ LET wallets == loadPinWallets
         pending == FilterPending(wallets, 1)
     IN  RetryNext(p, [IdleLoc EXCEPT !.op = "retryPendingBridges", !.wallets = wallets,
                         !.pending = pending, !.k = 1])
  /\ UNCHANGED sessions

(* Lines 559-583: one bridge call of the sweep and the update it leads to.  *)
(* bridgeToChain throwing leaves retryPendingBridges through no handler.    *)
RetryBridge(p) ==
  /\ pc[p] = "retryBridge"
  /\ UNCHANGED <<sessions, clock>>
  /\ LET l == loc[p]
         i == l.pending[l.k]
         w == l.wallets[i]
     IN  IF ~BridgeChainSupported(w.targetChain)
           THEN /\ Return(p, [Thrown("retryPendingBridges", "Unsupported chain")
                                EXCEPT !.idx = i])
                /\ UNCHANGED store
           ELSE \E kit \in KitOutcomes :
                  LET br == BridgeKitResult(kit)
                      updated == IF br.success THEN SettledUpdate(w, br.txHash, clock)
                                 ELSE RetryFailureUpdate(w, br.error, clock)
                  IN  RetryNext(p, [l EXCEPT !.wallets[i] = updated, !.k = @ + 1,
                                      !.bridgeConfig = bridgeConfig(w.amount),
                                      !.succeeded = IF br.success THEN @ + 1 ELSE @,
                                      !.failed = IF updated.status = "FAILED" THEN @ + 1 ELSE @])

----------------------------------------------------------------------------
(* Sessions: src/src/session.ts                                             *)

loadSessions == sessions

generateSessionId == Draw(SessionIdSeq, {sessions[k].id : k \in 1..Len(sessions)})

NewSession(id, channelId, error, now) ==
  [id |-> id, channelId |-> channelId, totalDeposited |-> 0, currentBalance |-> 0,
   startedAt |-> now, lastActivityAt |-> now, endedAt |-> NoTime, status |-> "ACTIVE",
   destinationAddress |-> None, destinationChain |-> None, bridgeTxHash |-> None,
   fee |-> NoFee, error |-> error]

(* The lookup by id alone.                                                  *)
(* Only a negative balance counts as nothing to settle.                    *)
NegativeBalance(s) == s.currentBalance < 0

(* parseFloat(session.currentBalance) <= 0, lines 311-312 and 443-444      *)
NoBalance(s) == s.currentBalance <= 0

FindSessionAnyStatus(list, sessionId, i) ==
  LET hits == {k \in i..Len(list) : list[k].id = sessionId}
  IN  IF hits = {} THEN 0 ELSE CHOOSE k \in hits : \A j \in hits : k <= j

(* sessions.find((s) => s.id === sessionId && s.status === "ACTIVE")        *)
RECURSIVE FindSession(_, _, _)
FindSession(list, sessionId, i) ==
  IF i > Len(list) THEN 0
  ELSE IF list[i].id = sessionId /\ list[i].status = "ACTIVE" THEN i
  ELSE FindSession(list, sessionId, i + 1)

(* startSession, lines 145-166 (channelId set) and 167-192 (the catch       *)
(* block: no channelId, the error recorded): the session is pushed onto the *)
(* collection loaded now, and saved.                                        *)
StartSessionEnd(p, l, channelId, err) ==
  /\ saveSessions(Append(loadSessions, NewSession(l.sessionId, channelId, err, clock)))
  /\ Return(p, [NoRes EXCEPT !.op = "startSession", !.success = (err = None),
                  !.sessionId = l.sessionId, !.error = err, !.idx = Len(sessions) + 1])
  /\ UNCHANGED <<store, clock>>

(* depositToSession, lines 250-265 and 266-285: both the try block and the  *)
(* catch block add the deposit to the balances and save.                    *)
(* The deposit booked only when the resize went through.                   *)
DepositedIfSynced(s, amount, err, now) ==
  IF err = None
    THEN [s EXCEPT !.currentBalance = @ + amount, !.totalDeposited = @ + amount,
                   !.lastActivityAt = now]
    ELSE [s EXCEPT !.error = err]

(* The deposit added to the spendable balance only.                        *)
DepositedBalanceOnly(s, amount, err, now) ==
  [s EXCEPT !.currentBalance = @ + amount, !.lastActivityAt = now,
            !.error = IF err = None THEN @ ELSE err]

Deposited(s, amount, err, now) ==
  [s EXCEPT !.currentBalance = @ + amount, !.totalDeposited = @ + amount,
            !.lastActivityAt = now, !.error = IF err = None THEN @ ELSE err]

DepositEnd(p, l, err, now) ==
  /\ saveSessions([l.sessions EXCEPT ![l.sidx] = Deposited(@, l.amount, err, now)])
  /\ Return(p, [NoRes EXCEPT !.op = "depositToSession", !.success = (err = None),
                  !.sessionId = l.sessionId, !.error = err, !.idx = l.sidx,
                  !.amount = l.amount])
  /\ UNCHANGED store

(* endSession, lines 326-330: the session goes to SETTLING with the         *)
(* destination and the fee.                                                 *)
SessionSettling(s, destinationAddress, targetChainKey, fee) ==
  [s EXCEPT !.status = "SETTLING", !.destinationAddress = destinationAddress,
            !.destinationChain = targetChainKey, !.fee = fee]

(* Lines 372-376                                                            *)
SessionSettled(s, txHash, now) ==
  [s EXCEPT !.status = "SETTLED", !.bridgeTxHash = txHash, !.endedAt = now]

(* The failed session handed back for another attempt.                     *)
SessionReopened(s, err, now) == [s EXCEPT !.status = "ACTIVE", !.error = err]

(* Lines 393-396 and 408-411                                                *)
SessionFailed(s, err, now) ==
  [s EXCEPT !.status = "FAILED", !.error = err, !.endedAt = now]

(* sessionToPin, lines 476-495 and 496-514: createPinWallet(currentBalance) *)
(* appends a record to the store as it is now; the session is marked        *)
(* SETTLED, with the close error noted when the close threw.  When          *)
(* createPinWallet throws in the try block the catch block calls it again;  *)
(* when it throws in the catch block the session is marked FAILED (lines    *)
(* 515-528).  saveSessions succeeds unless the invocation's sessionWrites   *)
(* lets it throw.                                                           *)
SessionHandedOffIfClosed(s, err, now) ==
  [s EXCEPT !.status = IF err = None THEN "SETTLED" ELSE "FAILED", !.endedAt = now,
            !.error = IF err = None THEN @ ELSE err]

SessionHandedOff(s, err, now) ==
  [s EXCEPT !.status = "SETTLED", !.endedAt = now,
            !.error = IF err = None THEN @ ELSE "Channel close failed but PIN created"]

generateWalletIdFor(wallets) ==
  Draw(WalletIdSeq, {wallets[k].id : k \in 1..Len(wallets)})

generatePinFor(wallets) ==
  Draw(PinSeq, {PinSeq[i] : i \in {j \in 1..Len(PinSeq) :
                  \E k \in 1..Len(wallets) : wallets[k].pinHash = <<"sha256", PinSeq[j]>>}})

(* The record sessionToPin returns when a write of the sessions file throws *)
(* out of its last catch block (lines 515-519).                             *)
SessionPinThrown(l, s) ==
  [Thrown("sessionToPin", "write failed") EXCEPT !.sessionId = l.sessionId,
                                                 !.amount = s.currentBalance]

(* write1 and write2 say whether createPinWallet of line 477 and of line    *)
(* 502 wrote the store; saved1, saved2 and saved3 whether saveSessions of   *)
(* lines 482, 506 and 519 wrote the sessions file, each drawn from the      *)
(* outcomes l.sessionWrites allows.  A failed write throws: from the try    *)
(* block into the catch block, from there into the inner catch block, and   *)
(* from there out of sessionToPin.                                          *)
SessionPinEnd(p, l, err, now) ==
  \E write1 \in BOOLEAN, write2 \in BOOLEAN, saved1 \in l.sessionWrites,
     saved2 \in l.sessionWrites, saved3 \in l.sessionWrites,
     id1 \in generateWalletId, pin1 \in generatePin :
    LET s == l.sessions[l.sidx]
        inTry == err = None
        errorMsg == IF inTry THEN "write failed" ELSE err
        first == inTry /\ write1
        done == first /\ saved1
        wallets1 == IF first THEN PinWalletCreated(id1, pin1, s.currentBalance, now)
                    ELSE loadPinWallets
    IN  \E id2 \in generateWalletIdFor(wallets1), pin2 \in generatePinFor(wallets1) :
          LET second == ~done /\ write2
              recovered == second /\ saved2
              wallets2 == IF second
                            THEN Append(wallets1, NewWallet(id2, pin2, s.currentBalance,
                                                            None, None, "PENDING", now))
                          ELSE wallets1
          IN  /\ savePinWallets(wallets2)
              /\ IF done
                   THEN /\ saveSessions([l.sessions EXCEPT
                                           ![l.sidx] = SessionHandedOff(@, None, now)])
                        /\ Return(p, [NoRes EXCEPT !.op = "sessionToPin", !.success = TRUE,
                                        !.id = id1, !.pin = pin1, !.idx = Len(wallets1),
                                        !.amount = s.currentBalance, !.error = None,
                                        !.sessionId = l.sessionId])
                 ELSE IF recovered
                   THEN /\ saveSessions([l.sessions EXCEPT
                                           ![l.sidx] = SessionHandedOff(@, errorMsg, now)])
                        /\ Return(p, [NoRes EXCEPT !.op = "sessionToPin", !.success = TRUE,
                                        !.id = id2, !.pin = pin2, !.idx = Len(wallets2),
                                        !.amount = s.currentBalance, !.error = errorMsg,
                                        !.sessionId = l.sessionId])
                 ELSE IF saved3
                   THEN /\ saveSessions([l.sessions EXCEPT
                                           ![l.sidx] = SessionFailed(@, errorMsg, now)])
                        /\ Return(p, [NoRes EXCEPT !.op = "sessionToPin", !.success = FALSE,
                                        !.id = "", !.pin = "", !.idx = 0,
                                        !.amount = s.currentBalance, !.error = errorMsg,
                                        !.sessionId = l.sessionId])
                 ELSE /\ Return(p, SessionPinThrown(l, s))
                      /\ UNCHANGED sessions

(* endSession saves the session it holds and returns.                       *)
EndSessionEnd(p, l, updated, success, err) ==
  /\ saveSessions([l.sessions EXCEPT ![l.sidx] = updated])
  /\ Return(p, [NoRes EXCEPT !.op = "endSession", !.success = success,
                  !.sessionId = l.sessionId, !.error = err, !.idx = l.sidx,
                  !.chain = l.chain, !.fee = l.sessions[l.sidx].fee,
                  !.bridgeConfig = l.bridgeConfig])
  /\ UNCHANGED <<store, clock>>

(* Lines 406-421: the catch block of endSession.                            *)
EndFailed(p, l, msg) ==
  EndSessionEnd(p, l, SessionFailed(l.sessions[l.sidx], msg, clock), FALSE, msg)

----------------------------------------------------------------------------
(* The accounting client's calls.  Each await site either resumes or        *)
(* throws into the catch block of the operation it belongs to.              *)

Catch(p, l, msg) ==
  CASE l.op \in {"settleToChain", "claimPinWallet"} -> OrchestratorCatch(p, l, msg)
    [] l.op = "startSession" -> StartSessionEnd(p, l, None, msg)
    [] l.op = "depositToSession" -> DepositEnd(p, l, msg, clock) /\ UNCHANGED clock
    [] l.op = "sessionToPin" -> SessionPinEnd(p, l, msg, clock) /\ UNCHANGED clock
    [] l.op = "endSession" -> EndFailed(p, l, msg)
    [] l.op = "getKioskBalances" -> Await(p, [l EXCEPT !.errorMsg = msg], "getArcBalance")

AfterAuth(op) ==
  CASE op \in {"settleToChain", "claimPinWallet", "startSession"} -> "createChannel"
    [] op = "depositToSession" -> "resizeChannel"
    [] op = "sessionToPin" -> "sessionChannelExists"
    [] op = "endSession" -> "endChannelExists"
    [] op = "getKioskBalances" -> "getLedgerBalances"

(* clearNode.connect(): settlement.ts 197, 446; session.ts 133, 227, 460    *)
Connect(p) ==
  /\ pc[p] = "connect"
  /\ \E ok \in BOOLEAN :
       IF ok THEN Await(p, loc[p], "getConfig")
       ELSE Catch(p, loc[p], "clearnode error")

(* clearNode.getConfig(): settlement.ts 198, 447; session.ts 134, 228, 461  *)
GetConfig(p) ==
  /\ pc[p] = "getConfig"
  /\ \E ok \in BOOLEAN :
       IF ok THEN Await(p, loc[p], "authenticate")
       ELSE Catch(p, loc[p], "clearnode error")

(* clearNode.authenticate(): settlement.ts 199, 448; session.ts 135, 229,   *)
(* 462                                                                      *)
Authenticate(p) ==
  /\ pc[p] = "authenticate"
  /\ \E ok \in BOOLEAN :
       IF ok THEN Await(p, loc[p], AfterAuth(loc[p].op))
       ELSE Catch(p, loc[p], "clearnode error")

(* What createChannel resolves with (src/src/index.ts 1122-1129): the       *)
(* response's params.channelId || params.channel_id, which is undefined     *)
(* when a response that reports no error carries neither.                   *)
ChannelIds == {"0xchannel", None}

(* clearNode.createChannel(): settlement.ts 204, 453; session.ts 139        *)
CreateChannel(p) ==
  /\ pc[p] = "createChannel"
  /\ \/ Catch(p, loc[p], "clearnode error")
     \/ \E channelId \in ChannelIds :
          IF loc[p].op = "startSession"
            THEN StartSessionEnd(p, loc[p], channelId, None)
            ELSE Await(p, [loc[p] EXCEPT !.channelId = channelId], "bridge")

----------------------------------------------------------------------------
(* Session operations: src/src/session.ts                                   *)

(* startSession, lines 124-136                                              *)
StartSession(p) ==
  /\ Begin(p)
  /\ Len(sessions) < MaxSessions
  /\ \E sessionId \in generateSessionId, isAuthenticated \in BOOLEAN :
       Goto(p, [IdleLoc EXCEPT !.op = "startSession", !.sessionId = sessionId],
            FirstCall(isAuthenticated, "createChannel"))
  /\ UNCHANGED <<store, sessions>>

(* depositToSession, lines 205-230: without a channel no call is awaited    *)
(* and the deposit is booked at once.                                       *)
DepositToSessionWith(p, amounts) ==
  /\ Begin(p)
  /\ \E sessionId \in SessionIds, amount \in amounts, isAuthenticated \in BOOLEAN :
       LET list == loadSessions
           sidx == FindSession(list, sessionId, 1)
           l == [IdleLoc EXCEPT !.op = "depositToSession", !.sessions = list,
                   !.sidx = sidx, !.sessionId = sessionId, !.amount = amount]
       IN  IF sidx = 0
             THEN RejectSession(p, "depositToSession", "not found or not active",
                                sessionId, sidx, amount)
           ELSE IF isNaN(amount) \/ amount <= 0
             THEN RejectSession(p, "depositToSession", "Invalid deposit amount",
                                sessionId, sidx, amount)
           ELSE IF list[sidx].channelId # None
             THEN /\ Goto(p, l, FirstCall(isAuthenticated, "resizeChannel"))
                  /\ UNCHANGED <<store, sessions>>
           ELSE DepositEnd(p, l, None, clock')

DepositToSession(p) == DepositToSessionWith(p, DepositAmounts)

(* clearNode.resizeChannel(), lines 241-245                                 *)
ResizeChannel(p) ==
  /\ pc[p] = "resizeChannel"
  /\ UNCHANGED clock
  /\ \E ok \in BOOLEAN :
       DepositEnd(p, loc[p], IF ok THEN None ELSE "clearnode error", clock)

(* sessionToPin, lines 436-463                                              *)
SessionToPinWith(p, writes) ==
  /\ Begin(p)
  /\ Len(store) < MaxWallets
  /\ \E sessionId \in SessionIds, isAuthenticated \in BOOLEAN :
       LET list == loadSessions
           sidx == FindSession(list, sessionId, 1)
           l == [IdleLoc EXCEPT !.op = "sessionToPin", !.sessions = list,
                   !.sidx = sidx, !.sessionId = sessionId, !.sessionWrites = writes]
       IN  IF sidx = 0
             THEN RejectSession(p, "sessionToPin", "not found or not active",
                                sessionId, sidx, 0)
           ELSE IF NoBalance(list[sidx])
             THEN RejectSession(p, "sessionToPin", "No balance to convert to PIN",
                                sessionId, sidx, 0)
           ELSE IF list[sidx].channelId # None
             THEN /\ Goto(p, l, FirstCall(isAuthenticated, "sessionChannelExists"))
                  /\ UNCHANGED <<store, sessions>>
           ELSE SessionPinEnd(p, l, None, clock')

(* sessionToPin with the sessions file always written.                      *)
SessionToPin(p) == SessionToPinWith(p, {TRUE})

(* sessionToPin when a write of the sessions file may throw.                *)
SessionToPinWrites(p) == SessionToPinWith(p, BOOLEAN)

(* clearNode.channelExists(), line 466                                      *)
SessionChannelExists(p) ==
  /\ pc[p] = "sessionChannelExists"
  /\ UNCHANGED clock
  /\ \E outcome \in {"true", "false", "throw"} :
       CASE outcome = "true" -> Goto(p, loc[p], "sessionCloseChannel")
                                /\ UNCHANGED <<store, sessions>>
         [] outcome = "false" -> SessionPinEnd(p, loc[p], None, clock)
         [] outcome = "throw" -> SessionPinEnd(p, loc[p], "clearnode error", clock)

(* clearNode.closeChannel(), line 469                                       *)
SessionCloseChannel(p) ==
  /\ pc[p] = "sessionCloseChannel"
  /\ UNCHANGED clock
  /\ \E ok \in BOOLEAN :
       SessionPinEnd(p, loc[p], IF ok THEN None ELSE "clearnode error", clock)

(* endSession, lines 294-341                                               *)
EndSession(p) ==
  /\ Begin(p)
  /\ \E sessionId \in SessionIds, destinationAddress \in Destinations,
        targetChainKey \in ChainKeys, isAuthenticated \in BOOLEAN :
       LET list == loadSessions
           sidx == FindSession(list, sessionId, 1)
           rejected == [NoRes EXCEPT !.op = "endSession", !.threw = TRUE,
                          !.sessionId = sessionId, !.idx = sidx, !.chain = targetChainKey]
       IN  IF sidx = 0
             THEN /\ Return(p, [rejected EXCEPT !.error = "not found or not active"])
                  /\ UNCHANGED <<store, sessions>>
           ELSE IF getChainByKey(targetChainKey) = None
             THEN /\ Return(p, [rejected EXCEPT !.error = "Unsupported chain"])
                  /\ UNCHANGED <<store, sessions>>
           ELSE IF NoBalance(list[sidx])
             THEN /\ Return(p, [rejected EXCEPT !.error = "No balance to settle"])
                  /\ UNCHANGED <<store, sessions>>
           ELSE LET updated == [list EXCEPT ![sidx] =
                                  SessionSettling(@, destinationAddress, targetChainKey,
                                                  calculateFee(list[sidx].currentBalance))]
                    l == [IdleLoc EXCEPT !.op = "endSession", !.sessions = updated,
                            !.sidx = sidx, !.sessionId = sessionId,
                            !.destination = destinationAddress, !.chain = targetChainKey,
                            !.amount = list[sidx].currentBalance]
                IN  /\ saveSessions(updated)
                    /\ Goto(p, l, IF list[sidx].channelId # None
                                    THEN FirstCall(isAuthenticated, "endChannelExists")
                                    ELSE "endBridge")
                    /\ UNCHANGED store

(* clearNode.channelExists(), lines 345-352                                 *)
EndChannelExists(p) ==
  /\ pc[p] = "endChannelExists"
  /\ \E outcome \in {"true", "false", "throw"} :
       CASE outcome = "true" -> Await(p, loc[p], "endCloseChannel")
         [] outcome = "false" ->
              Await(p, [loc[p] EXCEPT !.channelLog = "Channel auto-closed (zero-balance)"],
                    "endBridge")
         [] outcome = "throw" -> EndFailed(p, loc[p], "clearnode error")

(* closeChannel with its failure swallowed, as settleToChain has it.        *)
EndCloseChannelSwallowed(p) ==
  /\ pc[p] = "endCloseChannel"
  /\ \E ok \in BOOLEAN : Await(p, loc[p], "endBridge")

(* clearNode.closeChannel(), lines 348-349                                  *)
EndCloseChannel(p) ==
  /\ pc[p] = "endCloseChannel"
  /\ \E ok \in BOOLEAN :
       IF ok THEN Await(p, [loc[p] EXCEPT !.channelLog = "Channel closed"], "endBridge")
       ELSE EndFailed(p, loc[p], "clearnode error")

(* bridgeToChain(), lines 362-404                                           *)
EndBridge(p) ==
  /\ pc[p] = "endBridge"
  /\ LET l == loc[p]
         s == l.sessions[l.sidx]
     IN  IF ~BridgeChainSupported(l.chain)
           THEN EndFailed(p, l, "Unsupported chain")
           ELSE \E kit \in KitOutcomes :
                  LET br == BridgeKitResult(kit)
                      l2 == [l EXCEPT !.bridgeConfig = bridgeConfig(s.currentBalance)]
                  IN  IF br.success
                        THEN EndSessionEnd(p, l2, SessionSettled(s, br.txHash, clock),
                                           TRUE, None)
                        ELSE EndSessionEnd(p, l2, SessionFailed(s, br.error, clock),
                                           FALSE, br.error)

----------------------------------------------------------------------------
(* getKioskBalances: src/src/settlement.ts 81-122                           *)

(* What getLedgerBalances resolves with: no entry for ytest.usd, or one     *)
(* with this raw amount.                                                    *)
LedgerAmounts == {0, 1234567}

(* getArcBalance throwing past its own catch block.                         *)
GetArcBalanceUncaught(p) ==
  /\ pc[p] = "getArcBalance"
  /\ \E ok \in BOOLEAN :
       Return(p, IF ok
                   THEN [NoRes EXCEPT !.op = "getKioskBalances", !.success = TRUE,
                           !.logged = loc[p].errorMsg,
                           !.balances = [yellow |-> loc[p].yellowBalance,
                                         arc |-> ArcUsdc(ok), timestamp |-> clock,
                                         set |-> TRUE]]
                   ELSE Thrown("getKioskBalances", "arc error"))
  /\ UNCHANGED <<store, sessions, clock>>

(* Lines 81-90: the default balance, then the isAuthenticated read.         *)
GetKioskBalances(p) ==
  /\ Begin(p)
  /\ \E isAuthenticated \in BOOLEAN :
       Goto(p, [IdleLoc EXCEPT !.op = "getKioskBalances"],
            FirstCall(isAuthenticated, "getLedgerBalances"))
  /\ UNCHANGED <<store, sessions>>

(* clearNode.getLedgerBalances(), lines 92-109: a throw is logged and the   *)
(* default kept; otherwise the first ytest.usd entry, if any, is taken.     *)
GetLedgerBalances(p) ==
  /\ pc[p] = "getLedgerBalances"
  /\ \/ Catch(p, loc[p], "clearnode error")
     \/ Await(p, loc[p], "getArcBalance")
     \/ \E rawAmount \in LedgerAmounts :
          Await(p, [loc[p] EXCEPT !.yellowBalance = YellowOf(rawAmount),
                                  !.amount = rawAmount], "getArcBalance")

(* getArcBalance(), line 112, and the snapshot returned, lines 114-121.     *)
GetArcBalance(p) ==
  /\ pc[p] = "getArcBalance"
  /\ \E ok \in BOOLEAN :
       Return(p, [NoRes EXCEPT !.op = "getKioskBalances", !.success = TRUE,
                    !.logged = loc[p].errorMsg, !.amount = loc[p].amount,
                    !.balances = [yellow |-> loc[p].yellowBalance,
                                  arc |-> ArcUsdc(ok), timestamp |-> clock,
                                  set |-> TRUE]])
  /\ UNCHANGED <<store, sessions, clock>>

----------------------------------------------------------------------------
(* Specifications                                                           *)

Step1(p) ==
  \/ SettleStart(p) \/ CreatePinWallet(p) \/ ClaimStart(p) \/ RetryStart(p)
  \/ Connect(p) \/ GetConfig(p) \/ Authenticate(p) \/ CreateChannel(p)
  \/ Bridge(p) \/ ChannelExists(p) \/ CloseChannel(p) \/ CatchClose(p)
  \/ RetryBridge(p)
  \/ StartSession(p) \/ DepositToSession(p) \/ ResizeChannel(p)
  \/ SessionToPin(p) \/ SessionChannelExists(p) \/ SessionCloseChannel(p)
  \/ EndSession(p) \/ EndChannelExists(p) \/ EndCloseChannel(p) \/ EndBridge(p)
  \/ GetKioskBalances(p) \/ GetLedgerBalances(p) \/ GetArcBalance(p)

(* Non-overlapping invocations: one invocation runs to its end before the   *)
(* next begins.                                                             *)
Next == Step1("inv1")

Spec == Init /\ [][Next]_vars

(* Non-overlapping invocations of the operations that take an amount from  *)
(* their caller, given any amount: positive, zero, or a string              *)
(* that is no number.                                                       *)
AnyAmounts == {100, 0, NaN}

AmountStep(p) ==
  \/ CreatePinWalletWith(p, AnyAmounts) \/ SettleStartWith(p, AnyAmounts)
  \/ DepositToSessionWith(p, AnyAmounts) \/ StartSession(p) \/ ResizeChannel(p)
  \/ Connect(p) \/ GetConfig(p) \/ Authenticate(p) \/ CreateChannel(p)
  \/ Bridge(p) \/ ChannelExists(p) \/ CloseChannel(p) \/ CatchClose(p)

NextAmounts == AmountStep("inv1")

SpecAmounts == Init /\ [][NextAmounts]_vars

(* Overlapping claims: two invocations of claimPinWallet interleave at      *)
(* their awaits, on records createPinWallet has stored.                     *)
ClaimStep(p) ==
  \/ CreatePinWallet(p) \/ ClaimStart(p)
  \/ Connect(p) \/ GetConfig(p) \/ Authenticate(p) \/ CreateChannel(p)
  \/ Bridge(p) \/ ChannelExists(p) \/ CloseChannel(p) \/ CatchClose(p)

NextClaims == \E p \in Procs : ClaimStep(p)

SpecClaims == Init /\ [][NextClaims]_vars

(* Overlapping invocations on the Recovery Record store: while one caller  *)
(* runs settleToChain, createPinWallet, claimPinWallet and                  *)
(* retryPendingBridges one after the other, a scheduled retry sweep runs    *)
(* alongside; each saves the collection it loaded when it began.            *)
StoreStep(p) ==
  \/ SettleStart(p) \/ CreatePinWallet(p) \/ ClaimStart(p) \/ RetryStart(p)
  \/ Connect(p) \/ GetConfig(p) \/ Authenticate(p) \/ CreateChannel(p)
  \/ Bridge(p) \/ ChannelExists(p) \/ CloseChannel(p) \/ CatchClose(p)
  \/ RetryBridge(p)

SweepStep(p) == RetryStart(p) \/ RetryBridge(p)

NextStore == StoreStep("inv1") \/ SweepStep("inv2")

SpecStore == Init /\ [][NextStore]_vars

(* The session operations, invocations overlapping: each loads the whole    *)
(* sessions file at its start and saves its copy at its end.                *)
SessionStep(p) ==
  \/ StartSession(p) \/ DepositToSession(p) \/ ResizeChannel(p)
  \/ Connect(p) \/ GetConfig(p) \/ Authenticate(p) \/ CreateChannel(p)
  \/ SessionToPin(p) \/ SessionChannelExists(p) \/ SessionCloseChannel(p)
  \/ EndSession(p) \/ EndChannelExists(p) \/ EndCloseChannel(p) \/ EndBridge(p)

NextSessions == \E p \in Procs : SessionStep(p)

SpecSessions == Init /\ [][NextSessions]_vars

(* Sessions opened, paid into and converted to a PIN wallet, one invocation *)
(* at a time, when a write of the sessions file by sessionToPin may throw.  *)
PinWritesStep(p) ==
  \/ StartSession(p) \/ DepositToSession(p) \/ ResizeChannel(p)
  \/ Connect(p) \/ GetConfig(p) \/ Authenticate(p) \/ CreateChannel(p)
  \/ SessionToPinWrites(p) \/ SessionChannelExists(p) \/ SessionCloseChannel(p)

NextPinWrites == PinWritesStep("inv1")

SpecPinWrites == Init /\ [][NextPinWrites]_vars

(* calculateFee on its own: the amount, in millionths, is drawn when the    *)
(* call is made, and the step returns the breakdown.                        *)
InitFees ==
  /\ store = <<>>
  /\ sessions = <<>>
  /\ clock = 0
  /\ pc = [p \in Procs |-> IF p = "inv1" THEN "calculateFee" ELSE "idle"]
  /\ \E a \in 1..MaxFeeAmount :
       loc = [p \in Procs |-> IF p = "inv1"
                                THEN [IdleLoc EXCEPT !.op = "calculateFee", !.amount = a]
                                ELSE IdleLoc]
  /\ res = [p \in Procs |-> NoRes]

CalculateFee(p) ==
  /\ pc[p] = "calculateFee"
  /\ \E feeUp \in BOOLEAN, netUp \in BOOLEAN :
       Return(p, [NoRes EXCEPT !.op = "calculateFee", !.success = TRUE,
                               !.amount = loc[p].amount,
                               !.fee = calculateFeeMicro(loc[p].amount, feeUp, netUp)])
  /\ UNCHANGED <<store, sessions, clock>>

NextFees == CalculateFee("inv1")

SpecFees == InitFees /\ [][NextFees]_vars

(* bridgeToChain on its own: the chain key and what the kit will do are     *)
(* drawn when the call is made, and the step returns the result or throws.  *)
InitBridge ==
  /\ store = <<>>
  /\ sessions = <<>>
  /\ clock = 0
  /\ pc = [p \in Procs |-> IF p = "inv1" THEN "bridgeToChain" ELSE "idle"]
  /\ \E targetChainKey \in ChainKeys, amount \in Amounts, kit \in KitResults :
       loc = [p \in Procs |-> IF p = "inv1"
                                THEN [IdleLoc EXCEPT !.op = "bridgeToChain",
                                                     !.chain = targetChainKey,
                                                     !.amount = amount, !.kit = kit]
                                ELSE IdleLoc]
  /\ res = [p \in Procs |-> NoRes]

(* src/unnamed/part_000 161-286                                             *)
BridgeToChain(p) ==
  /\ pc[p] = "bridgeToChain"
  /\ LET l == loc[p]
         br == BridgeKitResult(l.kit)
     IN  IF ~BridgeChainSupported(l.chain)
           THEN Return(p, [Thrown("bridgeToChain", "Unsupported chain")
                             EXCEPT !.chain = l.chain, !.kit = l.kit])
           ELSE Return(p, [NoRes EXCEPT !.op = "bridgeToChain", !.success = br.success,
                             !.error = br.error, !.chain = l.chain, !.amount = l.amount,
                             !.kit = l.kit, !.bridgeResult = br,
                             !.bridgeConfig = bridgeConfig(l.amount)])
  /\ UNCHANGED <<store, sessions, clock>>

NextBridge == BridgeToChain("inv1")

SpecBridge == InitBridge /\ [][NextBridge]_vars

(* The retry sweep on its own, from any store the operations leave behind:  *)
(* PIN wallets (PENDING), bridge backups after zero to three failed         *)
(* attempts (PENDING_BRIDGE, with destination and chain as accepted by      *)
(* getChainByKey), and settled and dead-lettered records.                   *)
SweepRecords(id, pin) ==
  {NewWallet(id, pin, amount, None, None, "PENDING", NoTime) : amount \in Amounts}
  \cup
  {[NewWallet(id, pin, amount, destination, targetChain, "PENDING_BRIDGE", NoTime)
      EXCEPT !.bridgeAttempts = n,
             !.lastBridgeError = IF n = 0 THEN None ELSE BridgeKitResult(KitThrows).error] :
     amount \in Amounts, destination \in Destinations,
     targetChain \in {k \in ChainKeys : getChainByKey(k) # None}, n \in 0..3}
  \cup
  {[NewWallet(id, pin, amount, destination, "base", status, NoTime)
      EXCEPT !.bridgeAttempts = IF status = "FAILED" THEN 3 ELSE 0,
             !.bridgeTxHash = IF status = "SETTLED" THEN "0xtx" ELSE None] :
     amount \in Amounts, destination \in Destinations, status \in {"SETTLED", "FAILED"}}

SweepStores ==
  UNION {{wallets \in [1..n -> UNION {SweepRecords(WalletIdSeq[i], PinSeq[1]) : i \in 1..Len(WalletIdSeq)}] :
            \A i \in 1..n : wallets[i].id = WalletIdSeq[((i - 1) % Len(WalletIdSeq)) + 1]} :
         n \in 0..MaxWallets}

(* loc["inv2"].wallets keeps the store the sweeps began with; inv2 takes no *)
(* step.                                                                    *)
InitSweeps ==
  /\ store \in SweepStores
  /\ sessions = <<>>
  /\ clock = 0
  /\ pc = [p \in Procs |-> "idle"]
  /\ loc = [p \in Procs |-> IF p = "inv2" THEN [IdleLoc EXCEPT !.wallets = store] ELSE IdleLoc]
  /\ res = [p \in Procs |-> NoRes]

NextSweeps == SweepStep("inv1")

SpecSweeps == InitSweeps /\ [][NextSweeps]_vars

----------------------------------------------------------------------------
(* Properties                                                               *)

Terminal(w) == w.status \in {"SETTLED", "FAILED"}

Pending(w) == w.status \in {"PENDING", "PENDING_BRIDGE"}

(* The calls settleToChain and claimPinWallet await before and up to the    *)
(* bridge call.                                                             *)
UpToBridge == {"connect", "getConfig", "authenticate", "createChannel", "bridge"}

(* p's invocation of op ends with this step (it returns or throws).         *)
Ends(p, op) ==
  /\ pc'[p] = "idle"
  /\ res'[p].op = op
  /\ (pc[p] # "idle" \/ clock' # clock)

(* p's invocation of op begins with this step and goes on to await a call.  *)
Proceeds(p, op) ==
  /\ pc[p] = "idle"
  /\ pc'[p] # "idle"
  /\ loc'[p].op = op

C2_TerminalStatusIsFinal ==
  [][\A i \in 1..Len(store) :
       Terminal(store[i]) => /\ i <= Len(store')
                             /\ store'[i].status = store[i].status]_vars

(* A record became terminal and another invocation has run since.           *)
C2_Witness ==
  /\ pc["inv1"] = "idle"
  /\ res["inv1"].op = "claimPinWallet"
  /\ \E i \in 1..Len(store) :
       /\ Terminal(store[i])
       /\ store[i].lastBridgeAttempt < clock
       /\ store[i].settledAt < clock
       /\ store[i].id = res["inv1"].id

(* The bridge call of a claim of record i is in flight, or has returned     *)
(* success to an invocation that has not returned yet.                      *)
ClaimBridging(p, i) ==
  /\ loc[p].op = "claimPinWallet"
  /\ loc[p].idx = i
  /\ \/ pc[p] = "bridge"
     \/ pc[p] \in {"channelExists", "closeChannel", "catchClose"} /\ loc[p].bridgeResult.success

(* C3: for one record, at most one claim has a bridge call in flight or     *)
(* completed with success.                                                  *)
C3_OneBridgeCallPerRecord ==
  \A i \in 1..MaxWallets : Cardinality({p \in Procs : ClaimBridging(p, i)}) <= 1

(* The arguments a claimPinWallet step was called with.                     *)
ClaimArgId(p) == IF pc'[p] = "idle" THEN res'[p].id ELSE loc'[p].walletId

ClaimArgPin(p) == IF pc'[p] = "idle" THEN res'[p].pin ELSE loc'[p].pin

(* C4: a claim whose id matches no PENDING/PENDING_BRIDGE record, or whose  *)
(* PIN does not hash to the pinHash of the record found, throws without     *)
(* awaiting any call and leaves both stores unchanged; and while a claim    *)
(* awaits any call, the PIN it was given hashes to its record's pinHash.    *)
C4_ClaimNeedsIdAndPin ==
  [][\A p \in Procs :
       /\ (Ends(p, "claimPinWallet") \/ Proceeds(p, "claimPinWallet")) /\ pc[p] = "idle" =>
            LET matches == {i \in 1..Len(store) :
                              store[i].id = ClaimArgId(p) /\ Pending(store[i])}
                wrong == \/ matches = {}
                         \/ \E i \in matches :
                              /\ \A j \in matches : i <= j
                              /\ store[i].pinHash # hashPin(ClaimArgPin(p))
            IN  wrong => /\ res'[p].threw
                         /\ pc'[p] = "idle"
                         /\ store' = store
                         /\ sessions' = sessions
       /\ (loc'[p].op = "claimPinWallet" /\ pc'[p] # "idle") =>
            /\ loc'[p].idx \in 1..Len(store')
            /\ store'[loc'[p].idx].pinHash = hashPin(loc'[p].pin)
            /\ store'[loc'[p].idx].id = loc'[p].walletId]_vars

(* A claim of an existing pending record was rejected for its PIN.          *)
C4_Witness ==
  /\ res["inv1"].op = "claimPinWallet"
  /\ res["inv1"].threw
  /\ res["inv1"].error = "Invalid PIN"
  /\ \E i \in 1..Len(store) :
       /\ store[i].id = res["inv1"].id
       /\ Pending(store[i])
       /\ store[i].pinHash # hashPin(res["inv1"].pin)

(* C5: when settleToChain returns because its bridge call returned a        *)
(* failure, the record's bridgeAttempts went up by exactly one, its         *)
(* lastBridgeError and lastBridgeAttempt are stored, its status is          *)
(* PENDING_BRIDGE, the result has success = false and carries the record's  *)
(* id and the PIN hashing to its pinHash, and a claim with that id and PIN  *)
(* finds a record and passes the PIN check.                                 *)
C5_ReturnedFailureIsClaimable ==
  [][\A p \in Procs :
       (Ends(p, "settleToChain") /\ ~res'[p].threw /\ res'[p].yellowRecorded
          /\ ~res'[p].success) =>
         LET i == res'[p].idx
         IN  /\ store'[i].bridgeAttempts = store[i].bridgeAttempts + 1
             /\ store'[i].lastBridgeError = res'[p].error
             /\ store'[i].lastBridgeError # None
             /\ store'[i].lastBridgeAttempt = clock
             /\ store'[i].status = "PENDING_BRIDGE"
             /\ res'[p].id = store'[i].id
             /\ hashPin(res'[p].pin) = store'[i].pinHash
             /\ FindWallet(store', res'[p].id, 1) # 0
             /\ PinMatches(res'[p].pin, store'[FindWallet(store', res'[p].id, 1)])]_vars

(* C6: when the bridge has returned success, settleToChain and              *)
(* claimPinWallet return success = true with the record persisted as        *)
(* SETTLED, a sweep persists as SETTLED every record whose bridge call      *)
(* returned success, and every SETTLED record carries a bridgeTxHash and a  *)
(* settledAt.                                                               *)
C6_BridgeSuccessSettles ==
  [][/\ \A p \in Procs :
          /\ ((Ends(p, "settleToChain") \/ Ends(p, "claimPinWallet"))
                /\ pc[p] # "idle" /\ loc[p].bridgeResult.success) =>
               /\ res'[p].success
               /\ store'[loc[p].idx].status = "SETTLED"
          /\ (Ends(p, "retryPendingBridges") /\ pc[p] # "idle") =>
               \A i \in 1..Len(store) :
                 loc[p].wallets[i].status = "SETTLED" => store'[i].status = "SETTLED"
     /\ \A i \in 1..Len(store') :
          store'[i].status = "SETTLED" =>
            /\ store'[i].bridgeTxHash # None
            /\ store'[i].settledAt # NoTime]_vars

(* C7: once settleToChain, claimPinWallet or retryPendingBridges awaits a   *)
(* call, it does not throw: it returns a result, and a failed settle or     *)
(* claim has its error and one more attempt stored on its record.           *)
C7_NoThrowPastValidation ==
  [][\A p \in Procs :
       /\ (pc[p] # "idle" /\ pc'[p] = "idle"
             /\ res'[p].op \in {"settleToChain", "claimPinWallet", "retryPendingBridges"}) =>
            ~res'[p].threw
       /\ (pc[p] # "idle" /\ pc'[p] = "idle" /\ ~res'[p].threw /\ ~res'[p].success
             /\ res'[p].op \in {"settleToChain", "claimPinWallet"}) =>
            /\ store'[res'[p].idx].lastBridgeError = res'[p].error
            /\ store'[res'[p].idx].bridgeAttempts = store[res'[p].idx].bridgeAttempts + 1]_vars

(* The record the sweep's pending bridge call is for.                       *)
RetryCurrent(p) == loc[p].pending[loc[p].k]

(* C8: a sweep calls the bridge only for records with fewer than three      *)
(* attempts, leaves every record with three or more attempts as it is, and  *)
(* when it ends every record whose bridge call failed in it is persisted    *)
(* with one more attempt, FAILED if that makes three and PENDING_BRIDGE     *)
(* otherwise.                                                               *)
C8_SweepCapsAtThree ==
  [][\A p \in Procs :
       /\ pc'[p] = "retryBridge" =>
            loc'[p].wallets[loc'[p].pending[loc'[p].k]].bridgeAttempts < 3
       /\ (loc[p].op = "retryPendingBridges" \/ Ends(p, "retryPendingBridges")) =>
            \A i \in 1..Len(store) :
              store[i].bridgeAttempts >= 3 => store'[i] = store[i]
       /\ (pc[p] = "retryBridge" /\ pc'[p] = "idle") =>
            \A i \in 1..Len(store) :
              (i # RetryCurrent(p)
                 /\ loc[p].wallets[i].bridgeAttempts = store[i].bridgeAttempts + 1) =>
                /\ store'[i].bridgeAttempts = store[i].bridgeAttempts + 1
                /\ store'[i].status = IF store[i].bridgeAttempts = 2 THEN "FAILED"
                                      ELSE "PENDING_BRIDGE"]_vars

(* p's claim ends without success in this step, having been accepted (it   *)
(* awaited a call) and having found record i.                               *)
ClaimFails(p, i) ==
  /\ Ends(p, "claimPinWallet")
  /\ pc[p] # "idle"
  /\ ~res'[p].success
  /\ i = loc[p].idx

(* p's claim is rejected in this step after the PIN check passed for        *)
(* record i.                                                                *)
ClaimThrowsAfterPin(p, i) ==
  /\ Ends(p, "claimPinWallet")
  /\ pc[p] = "idle"
  /\ res'[p].threw
  /\ i = res'[p].idx
  /\ i # 0
  /\ PinMatches(res'[p].pin, store[i])

(* What a failed claim leaves of record i: PENDING_BRIDGE, one more         *)
(* attempt, and still the record a claim with the same id and PIN finds.    *)
ClaimFailureBooked(i, walletId, pin) ==
  /\ store'[i].status = "PENDING_BRIDGE"
  /\ store'[i].bridgeAttempts = store[i].bridgeAttempts + 1
  /\ FindWallet(store', walletId, 1) = i
  /\ PinMatches(pin, store'[i])

(* No step of a claim writes FAILED.                                        *)
ClaimNeverFails(p) ==
  (loc[p].op = "claimPinWallet" \/ Ends(p, "claimPinWallet")) =>
    \A i \in 1..Len(store') :
      store'[i].status = "FAILED" => (i <= Len(store) /\ store[i].status = "FAILED")

(* C9 as stated: a claim that fails after PIN verification, by a returned   *)
(* bridge failure or by any error thrown, leaves the record PENDING_BRIDGE  *)
(* with one more attempt and claimable with the same PIN, whatever the      *)
(* number of attempts; no claim writes FAILED.                              *)
C9_FailedClaimCounts ==
  [][\A p \in Procs :
       /\ \A i \in 1..Len(store) :
            /\ ClaimFails(p, i) => ClaimFailureBooked(i, loc[p].walletId, loc[p].pin)
            /\ ClaimThrowsAfterPin(p, i) => ClaimFailureBooked(i, res'[p].id, res'[p].pin)
       /\ ClaimNeverFails(p)]_vars

(* C9 amended: a claim that passed PIN verification and chain validation    *)
(* and then fails, by a returned bridge failure or by a thrown call, leaves *)
(* the record PENDING_BRIDGE with one more attempt and claimable with the   *)
(* same PIN, whatever the number of attempts; no claim writes FAILED.       *)
C9_AcceptedFailedClaimCounts ==
  [][\A p \in Procs :
       /\ \A i \in 1..Len(store) :
            ClaimFails(p, i) => ClaimFailureBooked(i, loc[p].walletId, loc[p].pin)
       /\ ClaimNeverFails(p)]_vars

(* A claim has failed on a record that had three attempts already.          *)
C9_Witness ==
  /\ res["inv1"].op = "claimPinWallet"
  /\ ~res["inv1"].threw
  /\ ~res["inv1"].success
  /\ res["inv1"].idx \in 1..Len(store)
  /\ store[res["inv1"].idx].bridgeAttempts = 4
  /\ store[res["inv1"].idx].status = "PENDING_BRIDGE"

(* C10: a claim whose id belongs only to SETTLED or FAILED records throws   *)
(* without awaiting any call and leaves both stores unchanged; no claim     *)
(* awaits a call for a record that is SETTLED or FAILED, and no step of a   *)
(* claim changes such a record.                                             *)
C10_TerminalRecordNotClaimable ==
  [][\A p \in Procs :
       /\ ((Ends(p, "claimPinWallet") \/ Proceeds(p, "claimPinWallet")) /\ pc[p] = "idle") =>
            LET hits == {i \in 1..Len(store) : store[i].id = ClaimArgId(p)}
            IN  (hits # {} /\ \A i \in hits : Terminal(store[i])) =>
                  /\ res'[p].threw
                  /\ pc'[p] = "idle"
                  /\ store' = store
                  /\ sessions' = sessions
       /\ (loc'[p].op = "claimPinWallet" /\ pc'[p] # "idle") =>
            /\ ~Terminal(store'[loc'[p].idx])
            /\ store'[loc'[p].idx].settledAt = NoTime
       /\ (loc[p].op = "claimPinWallet" \/ Ends(p, "claimPinWallet")) =>
            \A i \in 1..Len(store) : Terminal(store[i]) => store'[i] = store[i]]_vars

(* A settled record was claimed again with its id and PIN, and rejected.    *)
C10_Witness ==
  /\ res["inv1"].op = "claimPinWallet"
  /\ res["inv1"].threw
  /\ res["inv1"].error = "Wallet not found or already claimed"
  /\ \E i \in 1..Len(store) :
       /\ store[i].status = "SETTLED"
       /\ store[i].id = res["inv1"].id
       /\ store[i].pinHash = hashPin(res["inv1"].pin)

(* p begins an invocation in this step.                                     *)
Invokes(p) == pc[p] = "idle" /\ clock' # clock

(* The operation p's invocation is of, and the chain key it was given.      *)
InvokedOp(p) == IF pc'[p] = "idle" THEN res'[p].op ELSE loc'[p].op

ChainArg(p) == IF pc'[p] = "idle" THEN res'[p].chain ELSE loc'[p].chain

(* C11: settleToChain, claimPinWallet and endSession given a chain key      *)
(* that, lower-cased, is no key of SUPPORTED_CHAINS throw without awaiting  *)
(* any call, and the record store and the session store are as before.     *)
C11_UnsupportedChainFailsFast ==
  [][\A p \in Procs :
       (/\ Invokes(p)
        /\ InvokedOp(p) \in {"settleToChain", "claimPinWallet", "endSession"}
        /\ toLowerCase(ChainArg(p)) \notin SUPPORTED_CHAINS) =>
         /\ pc'[p] = "idle"
         /\ res'[p].threw
         /\ store' = store
         /\ sessions' = sessions]_vars

(* endSession was given an unsupported chain for an ACTIVE session with a   *)
(* balance, and threw.                                                      *)
C11_Witness ==
  /\ res["inv1"].op = "endSession"
  /\ res["inv1"].threw
  /\ res["inv1"].error = "Unsupported chain"
  /\ res["inv1"].chain = "solana"
  /\ res["inv1"].idx \in 1..Len(sessions)
  /\ sessions[res["inv1"].idx].status = "ACTIVE"
  /\ sessions[res["inv1"].idx].currentBalance > 0
  /\ store # <<>>

(* The amount p's invocation was given.                                     *)
AmountArg(p) == IF pc'[p] = "idle" THEN res'[p].amount ELSE loc'[p].amount

BadAmount(a) == isNaN(a) \/ a <= 0

(* C12: createPinWallet, settleToChain and depositToSession given an amount *)
(* that is not a positive number throw without awaiting any call and leave  *)
(* the record store and the session store as they were, and calculateFee,   *)
(* which settleToChain calls with its amount, yields no fee breakdown for   *)
(* such an amount.                                                          *)
C12_BadAmountRejected ==
  [][\A p \in Procs :
       (/\ Invokes(p)
        /\ InvokedOp(p) \in {"createPinWallet", "settleToChain", "depositToSession"}
        /\ BadAmount(AmountArg(p))) =>
         /\ pc'[p] = "idle"
         /\ res'[p].threw
         /\ store' = store
         /\ sessions' = sessions
         /\ InvokedOp(p) = "settleToChain" => calculateFee(AmountArg(p)) = NoFee]_vars

(* C13: no record of the persisted store has a pin field set: every record *)
(* carries the hash of a PIN and nothing else of it, whichever operation    *)
(* created it and however often the collection was saved since.             *)
C13_NoPlaintextPinStored ==
  \A i \in 1..Len(store) :
    /\ store[i].pin = None
    /\ \E pin \in Pins : store[i].pinHash = hashPin(pin)

(* The store holds a record of settleToChain that was saved again with its  *)
(* outcome, and a record sessionToPin has just created.                     *)
C13_Witness ==
  /\ res["inv1"].op = "sessionToPin"
  /\ res["inv1"].success
  /\ res["inv1"].idx \in 1..Len(store)
  /\ hashPin(res["inv1"].pin) = store[res["inv1"].idx].pinHash
  /\ \E i \in 1..Len(store) : store[i].lastBridgeAttempt # NoTime

(* The session id p's invocation was given.                                 *)
SessionArg(p) == IF pc'[p] = "idle" THEN res'[p].sessionId ELSE loc'[p].sessionId

(* The status changes a step of operation op may make to a session, and    *)
(* what else must be true of the step.                                      *)
SessionTransition(p, from, to) ==
  \/ from = to
  \/ /\ from = "ACTIVE" /\ to = "SETTLING"
     /\ Invokes(p) /\ InvokedOp(p) = "endSession"
  \/ /\ from = "SETTLING" /\ to \in {"SETTLED", "FAILED"}
     /\ pc[p] # "idle" /\ loc[p].op = "endSession"
  \/ /\ from = "ACTIVE" /\ to = "SETTLED"
     /\ Ends(p, "sessionToPin") /\ res'[p].success
  \/ /\ from = "ACTIVE" /\ to = "FAILED"
     /\ Ends(p, "sessionToPin") /\ ~res'[p].success /\ store' = store

DepositAccepted(p) == Ends(p, "depositToSession") /\ ~res'[p].threw

(* C15: a session starts with both balances zero; every accepted deposit of *)
(* d cents adds d to totalDeposited and to currentBalance, whether the      *)
(* resize succeeded, threw (the error is then stored on the session and the *)
(* result has success = false) or was skipped; and nothing else changes the *)
(* balances, so that both equal the sum of the accepted deposits.           *)
C15_DepositsAddUp ==
  [][/\ Len(sessions') >= Len(sessions)
     /\ \A i \in (Len(sessions) + 1)..Len(sessions') :
          sessions'[i].totalDeposited = 0 /\ sessions'[i].currentBalance = 0
     /\ \A p \in Procs :
          DepositAccepted(p) =>
            LET i == res'[p].idx
                d == res'[p].amount
            IN  /\ d > 0
                /\ sessions[i].status = "ACTIVE"
                /\ sessions[i].id = res'[p].sessionId
                /\ sessions'[i].totalDeposited = sessions[i].totalDeposited + d
                /\ sessions'[i].currentBalance = sessions[i].currentBalance + d
                /\ sessions'[i].status = "ACTIVE"
                /\ ~res'[p].success => /\ res'[p].error # None
                                       /\ sessions'[i].error = res'[p].error
     /\ \A i \in 1..Len(sessions) :
          (\A p \in Procs : ~(DepositAccepted(p) /\ res'[p].idx = i)) =>
            /\ sessions'[i].totalDeposited = sessions[i].totalDeposited
            /\ sessions'[i].currentBalance = sessions[i].currentBalance]_vars

(* A session that took deposits of 100 and 250 cents, the last one with a   *)
(* resize that threw: it holds 350 cents all the same.                      *)
C15_Witness ==
  /\ res["inv1"].op = "depositToSession"
  /\ ~res["inv1"].threw
  /\ ~res["inv1"].success
  /\ res["inv1"].idx \in 1..Len(sessions)
  /\ LET s == sessions[res["inv1"].idx]
     IN  /\ s.channelId # None
         /\ s.totalDeposited = 350
         /\ s.currentBalance = 350
         /\ s.error = res["inv1"].error

FoundSession(sessionId) == FindSession(sessions, sessionId, 1)

(* C17: endSession and sessionToPin invoked on an ACTIVE session whose       *)
(* currentBalance is zero throw without awaiting any channel or bridge      *)
(* call, the record store is as before and so is the session, still ACTIVE. *)
C17_EmptySessionNotCompleted ==
  [][\A p \in Procs :
       (/\ Invokes(p)
        /\ InvokedOp(p) \in {"endSession", "sessionToPin"}
        /\ FoundSession(SessionArg(p)) # 0
        /\ sessions[FoundSession(SessionArg(p))].currentBalance = 0) =>
         /\ pc'[p] = "idle"
         /\ res'[p].threw
         /\ res'[p].error # None
         /\ store' = store
         /\ sessions' = sessions]_vars

(* endSession, given a supported chain, threw on an ACTIVE session that     *)
(* never took a deposit.                                                    *)
C17_Witness ==
  /\ res["inv1"].op = "endSession"
  /\ res["inv1"].threw
  /\ getChainByKey(res["inv1"].chain) # None
  /\ res["inv1"].idx \in 1..Len(sessions)
  /\ sessions[res["inv1"].idx].status = "ACTIVE"
  /\ sessions[res["inv1"].idx].currentBalance = 0
  /\ store = <<>>

(* p is inside endSession before or after this step.                        *)
InEndSession(p) ==
  \/ Invokes(p) /\ InvokedOp(p) = "endSession"
  \/ pc[p] # "idle" /\ loc[p].op = "endSession"

(* C18: no step of endSession changes the record store; an endSession that  *)
(* got past validation returns (it does not throw), and when it returns     *)
(* failure, because the bridge returned failure or a call threw, the        *)
(* session is FAILED with that error and endedAt set; and a FAILED session  *)
(* is changed by no later step, every depositToSession, endSession or       *)
(* sessionToPin naming it throwing with both stores as before.              *)
C18_FailedEndHasNoFallback ==
  [][/\ \A p \in Procs :
          InEndSession(p) =>
            /\ store' = store
            /\ (pc[p] # "idle" /\ pc'[p] = "idle") =>
                 LET s == sessions'[res'[p].idx]
                 IN  /\ ~res'[p].threw
                     /\ sessions[res'[p].idx].status = "SETTLING"
                     /\ s.id = res'[p].sessionId
                     /\ s.status = IF res'[p].success THEN "SETTLED" ELSE "FAILED"
                     /\ s.endedAt # NoTime
                     /\ ~res'[p].success => res'[p].error # None /\ s.error = res'[p].error
     /\ \A i \in 1..Len(sessions) :
          sessions[i].status = "FAILED" =>
            /\ Len(sessions') >= i
            /\ sessions'[i] = sessions[i]
            /\ \A p \in Procs :
                 (/\ Invokes(p)
                  /\ InvokedOp(p) \in {"depositToSession", "endSession", "sessionToPin"}
                  /\ SessionArg(p) = sessions[i].id
                  /\ \A j \in 1..Len(sessions) :
                       sessions[j].id = sessions[i].id => sessions[j].status # "ACTIVE") =>
                   /\ pc'[p] = "idle"
                   /\ res'[p].threw
                   /\ store' = store]_vars

(* A session with a balance that endSession left FAILED: no record was      *)
(* created for it, and sessionToPin, asked to hand it off, threw.           *)
C18_Witness ==
  /\ res["inv1"].op = "sessionToPin"
  /\ res["inv1"].threw
  /\ store = <<>>
  /\ \E i \in 1..Len(sessions) :
       /\ sessions[i].id = res["inv1"].sessionId
       /\ sessions[i].status = "FAILED"
       /\ sessions[i].destinationChain # None
       /\ sessions[i].currentBalance > 0
       /\ sessions[i].error # None
       /\ sessions[i].endedAt # NoTime

(* The ACTIVE session sessionToPin finds for sessionId, when it has a       *)
(* positive balance.                                                        *)
HandOffSession(sessionId) ==
  {i \in 1..Len(sessions) : /\ i = FoundSession(sessionId)
                            /\ sessions[i].currentBalance > 0}

C20_SessionAlwaysCreated ==
  [][/\ \A p \in Procs :
          Ends(p, "startSession") =>
            /\ ~res'[p].threw
            /\ Len(sessions') = Len(sessions) + 1
            /\ SubSeq(sessions', 1, Len(sessions)) = sessions
            /\ LET s == sessions'[Len(sessions')]
               IN  /\ s.id = res'[p].sessionId
                   /\ s.status = "ACTIVE"
                   /\ s.totalDeposited = 0
                   /\ s.currentBalance = 0
                   /\ res'[p].success = (pc[p] = "createChannel" /\ res'[p].error = None)
                   /\ IF res'[p].success
                        THEN s.channelId # None /\ s.error = None
                        ELSE s.channelId = None /\ s.error # None /\ s.error = res'[p].error
     /\ \A i \in 1..Len(sessions) :
          /\ Len(sessions') >= i
          /\ sessions'[i].channelId = sessions[i].channelId
     /\ \A p \in Procs :
          (/\ Invokes(p) /\ InvokedOp(p) = "depositToSession"
           /\ FoundSession(SessionArg(p)) # 0
           /\ sessions[FoundSession(SessionArg(p))].channelId = None) =>
            pc'[p] = "idle"]_vars

(* The breakdown calculateFee returned for an amount of a millionths.       *)
FeeResult(p) == res[p].op = "calculateFee"

SavesOwnCopy(p) ==
  /\ Len(store') = Len(loc[p].wallets)
  /\ \E j \in 1..Len(store') :
       \A i \in 1..Len(store') : i # j => store'[i] = loc[p].wallets[i]

(* C22: with invocations overlapping on the record store, an invocation     *)
(* that returns after its awaits saves the collection it loaded when it     *)
(* began, changed in the one record it holds, whatever the store holds by   *)
(* then (no lock, no version check), and saves nothing in between: so a     *)
(* record another invocation persisted meanwhile is dropped and another's   *)
(* update of a record is undone (the states of the witness).                *)
C22_WholeCollectionOverwrite ==
  [][\A p \in Procs :
       /\ (pc[p] # "idle" /\ pc'[p] = "idle" /\ ~res'[p].threw) => SavesOwnCopy(p)
       /\ (pc[p] # "idle" /\ pc'[p] # "idle" /\ loc'[p] # loc[p]) => store' = store]_vars

(* createPinWallet returned a record it had persisted as the second of the  *)
(* store; a sweep that had loaded the store before has since saved its      *)
(* copy, and the record is gone.                                            *)
C22_Witness ==
  /\ res["inv1"].op = "createPinWallet"
  /\ res["inv1"].success
  /\ res["inv1"].idx = 2
  /\ Len(store) = 1
  /\ res["inv2"].op = "retryPendingBridges"
  /\ res["inv2"].attempted = 1

(* p's invocation of settleToChain or claimPinWallet returns failure on     *)
(* record i with this step, or p's sweep saves with this step.              *)
BooksFailedAttempt(p, i) ==
  /\ pc[p] # "idle"
  /\ \/ /\ loc[p].op \in {"settleToChain", "claimPinWallet"}
        /\ loc[p].idx = i
        /\ pc'[p] = "idle"
        /\ ~res'[p].success
     \/ /\ loc[p].op = "retryPendingBridges"
        /\ pc'[p] = "idle"
        /\ ~res'[p].threw

InGetKioskBalances(p) ==
  \/ Invokes(p) /\ InvokedOp(p) = "getKioskBalances"
  \/ pc[p] # "idle" /\ loc[p].op = "getKioskBalances"

(* C24: no step of getKioskBalances changes the record store or the         *)
(* sessions, and it returns a snapshot, never throwing; the bridge-side     *)
(* balance is "0.00"; when connect, getConfig, authenticate or the ledger   *)
(* read threw (an error was logged), when there is no entry for the asset   *)
(* and when the entry's raw amount is "0", the accounting balance is the    *)
(* same: amount "0.00", raw "0".                                            *)
C24_BalancesNeverThrow ==
  [][\A p \in Procs :
       InGetKioskBalances(p) =>
         /\ store' = store
         /\ sessions' = sessions
         /\ (pc[p] # "idle" /\ pc'[p] # "idle" /\ loc'[p].errorMsg # None) =>
              loc'[p].yellowBalance = ZeroYellow /\ pc'[p] = "getArcBalance"
         /\ pc'[p] = "idle" =>
              /\ ~res'[p].threw
              /\ res'[p].balances.set
              /\ res'[p].balances.arc = 0
              /\ (res'[p].logged # None \/ res'[p].amount = 0) =>
                   /\ res'[p].balances.yellow = ZeroYellow
                   /\ res'[p].balances.yellow = YellowOf(0)
              /\ res'[p].balances.yellow = YellowOf(res'[p].amount)]_vars

(* The ledger read threw after authentication went through: the snapshot    *)
(* shows the balance a ledger entry of "0" would give.                      *)
C24_Witness ==
  /\ res["inv1"].op = "getKioskBalances"
  /\ res["inv1"].logged = "clearnode error"
  /\ res["inv1"].balances.set
  /\ res["inv1"].balances.yellow = YellowOf(0)
  /\ res["inv1"].balances.arc = 0
  /\ Len(store) > 0

(* p runs settleToChain or claimPinWallet and holds a channel that          *)
(* createChannel returned.                                                  *)
HoldsChannel(p) ==
  /\ pc[p] # "idle"
  /\ loc[p].op \in {"settleToChain", "claimPinWallet"}
  /\ loc[p].channelId # None

(* closeChannel is awaited next (in the try block or in the catch block).   *)
ClosesNext(p) == pc'[p] \in {"closeChannel", "catchClose"}

(* C25: in settleToChain and claimPinWallet, an invocation holding a        *)
(* channel returns only after closeChannel was awaited or channelExists     *)
(* returned false; closeChannel is awaited only after channelExists         *)
(* returned true; and whatever closeChannel does, the record and the result *)
(* are those of the bridge outcome: SETTLED with the bridge's txHash and    *)
(* the attempts as before after a success, one more attempt after a         *)
(* failure or a throw.                                                      *)
C25_CloseIsBestEffort ==
  [][\A p \in Procs :
       HoldsChannel(p) =>
         /\ pc'[p] = "idle" => pc[p] \in {"closeChannel", "catchClose", "channelExists"}
         /\ ClosesNext(p) => pc[p] = "channelExists" /\ pc'[p] = "closeChannel"
         /\ (pc[p] \in {"closeChannel", "catchClose"}) =>
              LET i == loc[p].idx
                  ok == pc[p] = "closeChannel" /\ loc[p].bridgeResult.success
              IN  /\ pc'[p] = "idle"
                  /\ ~res'[p].threw
                  /\ res'[p].success = ok
                  /\ store'[i].status = IF ok THEN "SETTLED"
                                        ELSE IF loc[p].op = "claimPinWallet"
                                          THEN "PENDING_BRIDGE" ELSE store[i].status
                  /\ store'[i].bridgeAttempts =
                       store[i].bridgeAttempts + (IF ok THEN 0 ELSE 1)
                  /\ store'[i].bridgeTxHash =
                       IF ok THEN loc[p].bridgeResult.txHash ELSE store[i].bridgeTxHash]_vars

(* C26: a claim that passes the PIN and chain checks stores the caller's     *)
(* destination and targetChain only on a record that has none; a record     *)
(* that carries them keeps them, and the bridge is called with what the     *)
(* record holds after the write.                                            *)
C26_ClaimFillsOnlyIfAbsent ==
  [][\A p \in Procs :
       Proceeds(p, "claimPinWallet") =>
         LET i == loc'[p].idx
             w == store[i]
         IN  /\ store'[i].destination =
                  IF w.destination = None THEN loc'[p].destination ELSE w.destination
             /\ store'[i].targetChain =
                  IF w.targetChain = None THEN loc'[p].chain ELSE w.targetChain
             /\ loc'[p].destination = store'[i].destination
             /\ loc'[p].chain = store'[i].targetChain]_vars

(* The sweep bridges w: PENDING_BRIDGE, fewer than three attempts,          *)
(* destination and chain set.                                               *)
RetryBridgeable(w) ==
  /\ w.status = "PENDING_BRIDGE"
  /\ w.bridgeAttempts < 3
  /\ w.destination # None
  /\ w.targetChain # None

InSweep(p) == pc[p] # "idle" /\ loc[p].op = "retryPendingBridges"

(* C27: the only call a sweep awaits is the bridge; it awaits it for a      *)
(* record that is PENDING_BRIDGE with fewer than three attempts and with    *)
(* destination and chain, each later call being for a later record of the   *)
(* collection; the sweep neither adds nor removes a record and leaves every *)
(* other record as it was.                                                  *)
C27_SweepBridgesOnly ==
  [][\A p \in Procs :
       /\ (pc'[p] # "idle" /\ loc'[p].op = "retryPendingBridges") =>
            /\ pc'[p] = "retryBridge"
            /\ RetryBridgeable(store'[loc'[p].pending[loc'[p].k]])
       /\ (InSweep(p) /\ pc'[p] # "idle") =>
            loc'[p].pending[loc'[p].k] > RetryCurrent(p)
       /\ (InSweep(p) \/ Ends(p, "retryPendingBridges")) =>
            /\ Len(store') = Len(store)
            /\ \A i \in 1..Len(store) :
                 ~RetryBridgeable(store[i]) => store'[i] = store[i]]_vars

(* A sweep has settled one record and left a PENDING one alone.             *)
C27_Witness ==
  \E p \in Procs :
    /\ pc[p] = "idle"
    /\ res[p].op = "retryPendingBridges"
    /\ res[p].succeeded = 1
    /\ \E i \in 1..Len(store) : store[i].status = "PENDING"

(* The calls settleToChain awaits before a channel is open.                 *)
AccountingSetup == {"connect", "getConfig", "authenticate", "createChannel"}

(* p's settleToChain returns a failure in this step.                        *)
SettleFails(p) ==
  /\ pc[p] # "idle"
  /\ loc[p].op = "settleToChain"
  /\ pc'[p] = "idle"
  /\ ~res'[p].success

(* createChannel has returned and the bridge call of p's invocation has    *)
(* returned failure: seen in the step that returns right after the bridge   *)
(* call, or kept in bridgeResult while the channel is checked and closed.   *)
BridgeReturnedFailure(p) ==
  \/ pc[p] = "bridge" /\ res'[p].error = BridgeKitResult(KitThrows).error
  \/ /\ pc[p] \in {"channelExists", "closeChannel", "catchClose"}
     /\ loc[p].bridgeResult # NoBridgeResult
     /\ ~loc[p].bridgeResult.success

(* C28: a settleToChain that returns failure says yellowRecorded true       *)
(* exactly when its bridge call returned failure, and false exactly when    *)
(* connect, getConfig, authenticate or createChannel threw; either way the  *)
(* record is PENDING_BRIDGE with one more attempt and the error stored, and *)
(* the result carries the record's id and the PIN.                          *)
C28_FailureKinds ==
  [][\A p \in Procs :
       SettleFails(p) =>
         LET i == loc[p].idx
         IN  /\ res'[p].yellowRecorded <=> BridgeReturnedFailure(p)
             /\ ~res'[p].yellowRecorded <=> (pc[p] \in AccountingSetup)
             /\ store'[i].status = "PENDING_BRIDGE"
             /\ store'[i].bridgeAttempts = store[i].bridgeAttempts + 1
             /\ store'[i].lastBridgeError = res'[p].error
             /\ res'[p].error # None
             /\ res'[p].id = store[i].id
             /\ res'[p].pin = loc[p].pin
             /\ res'[p].pin # None]_vars

(* The calls behind which bridgeToChain runs.                               *)
BridgeCalls == {"bridge", "retryBridge", "endBridge"}

(* What the bridge kit was handed last, once this step is done.             *)
Submitted(p) == IF pc'[p] = "idle" THEN res'[p].bridgeConfig ELSE loc'[p].bridgeConfig

(* The persisted amount p's bridge call is for, in cents: the record's      *)
(* amount, the session's currentBalance.                                    *)
GrossAmount(p) ==
  CASE loc[p].op = "endSession" -> sessions[loc[p].sidx].currentBalance
    [] loc[p].op = "retryPendingBridges" -> store[RetryCurrent(p)].amount
    [] OTHER -> store[loc[p].idx].amount

(* C29: whenever settleToChain, claimPinWallet, retryPendingBridges or      *)
(* endSession hands an amount to the bridge kit, that amount plus the fee   *)
(* (a hundred-thousandth of the gross amount, to the nearest millionth) is  *)
(* the gross amount of the record or session; and an invocation that        *)
(* returns success with a message reports that same amount as net amount.   *)
C29_KitGetsNetAmount ==
  [][\A p \in Procs :
       (pc[p] \in BridgeCalls /\ Submitted(p).set) =>
         LET gross == GrossAmount(p) * MicroPerCent
             fee == gross - Submitted(p).amount
         IN  /\ 2 * fee * FEE_RATE_INVERSE <= 2 * gross + FEE_RATE_INVERSE
             /\ 2 * fee * FEE_RATE_INVERSE >= 2 * gross - FEE_RATE_INVERSE
             /\ (pc'[p] = "idle" /\ res'[p].success
                   /\ res'[p].op # "retryPendingBridges") =>
                  /\ res'[p].fee.set
                  /\ res'[p].fee.netAmount = Submitted(p).amount]_vars

(* A session of 2.50 has been settled: the kit was handed 2.499975.         *)
C29_Witness ==
  \E p \in Procs :
    /\ pc[p] = "idle"
    /\ res[p].op = "endSession"
    /\ res[p].success
    /\ res[p].bridgeConfig.set
    /\ res[p].bridgeConfig.amount = 2499975
    /\ res[p].fee.netAmount = 2499975

(* Session i is ACTIVE before and after this step.                          *)
StaysActive(i) ==
  /\ i <= Len(sessions)
  /\ sessions[i].status = "ACTIVE"
  /\ sessions'[i].status = "ACTIVE"

(* Session i completes in this step: endSession settles it or sessionToPin  *)
(* hands it off.                                                            *)
Completes(i) ==
  /\ i <= Len(sessions)
  /\ sessions[i].status # "SETTLED"
  /\ sessions'[i].status = "SETTLED"

(* C30: the currentBalance of a session that stays ACTIVE never decreases,  *)
(* and the currentBalance of a session that endSession settles or           *)
(* sessionToPin hands off is zero once it is SETTLED.                       *)
C30_BalanceZeroOnCompletion ==
  [][\A i \in 1..Len(sessions') :
       /\ StaysActive(i) => sessions'[i].currentBalance >= sessions[i].currentBalance
       /\ Completes(i) => sessions'[i].currentBalance = 0]_vars

(* The accounting calls endSession awaits before the bridge.                *)
EndAccountingCalls ==
  {"connect", "getConfig", "authenticate", "endChannelExists", "endCloseChannel"}

InEndSessionCall(p) == pc[p] # "idle" /\ loc[p].op = "endSession"

(* C31: an endSession that passes its checks saves the session as SETTLING  *)
(* with destination, chain and fee in the step that starts it, before any   *)
(* call is awaited; the bridge call comes only after closeChannel returned  *)
(* (logged "Channel closed"), after channelExists returned false (logged    *)
(* "Channel auto-closed"), or at once for a session without channel; and    *)
(* an invocation that ends in an accounting call has not called the bridge  *)
(* and leaves the session FAILED.                                           *)
C31_SettlingThenCloseThenBridge ==
  [][\A p \in Procs :
       /\ Proceeds(p, "endSession") =>
            LET s == sessions'[loc'[p].sidx]
            IN  /\ s.status = "SETTLING"
                /\ s.destinationAddress = loc'[p].destination
                /\ s.destinationChain = loc'[p].chain
                /\ s.fee.set
                /\ s.fee.grossAmount = s.currentBalance * MicroPerCent
                /\ ~loc'[p].bridgeConfig.set
       /\ (loc'[p].op = "endSession" /\ pc'[p] = "endBridge") =>
            \/ pc[p] = "endCloseChannel" /\ loc'[p].channelLog = "Channel closed"
            \/ /\ pc[p] = "endChannelExists"
               /\ loc'[p].channelLog = "Channel auto-closed (zero-balance)"
            \/ pc[p] = "idle" /\ sessions'[loc'[p].sidx].channelId = None
       /\ (InEndSessionCall(p) /\ pc[p] \in EndAccountingCalls) =>
            /\ ~loc[p].bridgeConfig.set
            /\ sessions[loc[p].sidx].channelId # None
            /\ pc'[p] = "idle" =>
                 /\ ~res'[p].success
                 /\ ~res'[p].bridgeConfig.set
                 /\ sessions'[loc[p].sidx].status = "FAILED"
                 /\ sessions'[loc[p].sidx].error = res'[p].error]_vars

(* An endSession has failed in closeChannel: session FAILED, no bridge call. *)
C31_Witness ==
  \E p \in Procs :
    /\ pc[p] = "idle"
    /\ res[p].op = "endSession"
    /\ ~res[p].threw
    /\ ~res[p].success
    /\ res[p].error = "clearnode error"
    /\ ~res[p].bridgeConfig.set
    /\ res[p].idx > 0
    /\ sessions[res[p].idx].status = "FAILED"
    /\ sessions[res[p].idx].channelId # None

(* C32: no bridge call of settleToChain, claimPinWallet, endSession or      *)
(* retryPendingBridges ends its invocation with 'Unsupported chain', and    *)
(* every targetChain stored on a record is a key bridgeToChain accepts.     *)
C32_ValidatedChainBridges ==
  [][/\ \A p \in Procs :
          pc[p] \in BridgeCalls =>
            ~(pc'[p] = "idle" /\ res'[p].error = "Unsupported chain")
     /\ \A i \in 1..Len(store') :
          store'[i].targetChain # None => BridgeChainSupported(store'[i].targetChain)]_vars

(* Record i was bridged with success earlier in p's sweep.                  *)
BridgedInSweep(p, i) ==
  /\ i <= Len(store)
  /\ store[i].status = "PENDING_BRIDGE"
  /\ loc[p].wallets[i].status = "SETTLED"

(* C33: when a sweep issues a bridge call, every record it has bridged with *)
(* success before is SETTLED in the store, and stays so whatever the call   *)
(* does.                                                                    *)
C33_SettledBeforeNextBridge ==
  [][\A p \in Procs :
       pc[p] = "retryBridge" =>
         \A i \in 1..Len(loc[p].wallets) :
           loc[p].wallets[i].status = "SETTLED" =>
             /\ ~BridgedInSweep(p, i)
             /\ store'[i].status = "SETTLED"]_vars

(* p's invocation, begun earlier, hands the balance of its session off in   *)
(* this step: endSession calls the bridge, or sessionToPin adds a Recovery  *)
(* Record.                                                                  *)
HandsOff(p) ==
  \/ pc[p] = "endBridge" /\ BridgeChainSupported(loc[p].chain)
  \/ pc[p] # "idle" /\ loc[p].op = "sessionToPin" /\ Len(store') > Len(store)

(* C34: with overlapping session operations, no invocation hands off the    *)
(* balance of a session that is persisted as SETTLED, that is, whose        *)
(* balance was handed off before; and a session persisted as SETTLED or     *)
(* FAILED is never persisted as ACTIVE afterwards.                          *)
C34_HandedOffAtMostOnce ==
  [][/\ \A p \in Procs :
          HandsOff(p) => sessions[loc[p].sidx].status # "SETTLED"
     /\ \A i \in 1..Len(sessions) :
          sessions[i].status \in {"SETTLED", "FAILED"} => sessions'[i].status # "ACTIVE"]_vars

(* p's sessionToPin, having found its session, ends in this step.          *)
SessionToPinEnds(p) ==
  /\ pc'[p] = "idle"
  /\ res'[p].op = "sessionToPin"
  /\ (pc[p] # "idle" \/ clock' # clock)
  /\ res'[p].error # "not found or not active"
  /\ res'[p].error # "No balance to convert to PIN"

(* C35: a sessionToPin invocation leaves the store alone until it ends, and *)
(* ends having added at most one Recovery Record: exactly one when it       *)
(* returns success, none when it returns failure, whichever of the channel  *)
(* close, createPinWallet's write and the writes of the sessions file fail. *)
C35_OneRecordPerHandOff ==
  [][\A p \in Procs :
       /\ (pc[p] # "idle" /\ loc[p].op = "sessionToPin" /\ pc'[p] # "idle") =>
            store' = store
       /\ SessionToPinEnds(p) =>
            /\ Len(store') <= Len(store) + 1
            /\ res'[p].success => Len(store') = Len(store) + 1
            /\ (~res'[p].success /\ ~res'[p].threw) => Len(store') = Len(store)]_vars

(* The kit's result reports the transfer as carried out: a mint step that   *)
(* succeeded, or a last step that succeeded, with a transaction hash.       *)
CarriedOut(kit) ==
  /\ ~kit.threw
  /\ \/ \E i \in 1..Len(kit.steps) :
          kit.steps[i].name = "mint" /\ kit.steps[i].state = "success"
     \/ /\ Len(kit.steps) > 0
        /\ kit.steps[Len(kit.steps)].state = "success"
        /\ (kit.steps[Len(kit.steps)].txHash # None \/ kit.txHash # None)

(* The kit resolved with a failed step or with no successful step.          *)
StepsFailed(kit) ==
  /\ ~kit.threw
  /\ \/ \E i \in 1..Len(kit.steps) : kit.steps[i].state = "failed"
     \/ \A i \in 1..Len(kit.steps) : kit.steps[i].state # "success"

(* C36: bridgeToChain returns success only for a kit result that reports    *)
(* the transfer as carried out, and failure for one with a failed step or   *)
(* with no successful step; for a supported chain it does not throw, and a  *)
(* throw of the kit comes back as failure with the error message.           *)
C36_SuccessMeansCarriedOut ==
  \A p \in Procs :
    (pc[p] = "idle" /\ res[p].op = "bridgeToChain") =>
      /\ res[p].success => CarriedOut(res[p].kit)
      /\ StepsFailed(res[p].kit) => ~res[p].success
      /\ BridgeChainSupported(res[p].chain) =>
           /\ ~res[p].threw
           /\ res[p].kit.threw => ~res[p].success /\ res[p].error # None

(* A step of the model writes FAILED into record i of the store.            *)
WritesFailed(i) ==
  /\ i \in 1..Len(store')
  /\ store'[i].status = "FAILED"
  /\ (i > Len(store) \/ store[i].status # "FAILED")

(* C37: for non-overlapping invocations a FAILED record has at least three  *)
(* bridge attempts and both destination and targetChain, and only a step of *)
(* retryPendingBridges writes FAILED: not settleToChain, createPinWallet,   *)
(* claimPinWallet or sessionToPin.                                          *)
C37_FailedOnlyBySweep ==
  /\ [](\A i \in 1..Len(store) :
          store[i].status = "FAILED" =>
            /\ store[i].bridgeAttempts >= 3
            /\ store[i].destination # None
            /\ store[i].targetChain # None)
  /\ [][\A i \in 1..Len(store') :
          WritesFailed(i) =>
            \E p \in Procs : pc[p] = "retryBridge" /\ loc[p].op = "retryPendingBridges"]_vars

C37_Witness ==
  /\ res["inv1"].op = "retryPendingBridges"
  /\ res["inv1"].failed = 1
  /\ \E i \in 1..Len(store) : store[i].status = "FAILED" /\ store[i].bridgeAttempts = 3

(* The sweeps began with record i awaiting its bridge: PENDING_BRIDGE, with  *)
(* destination and chain, and fewer than three attempts.                    *)
AwaitedBridge(i) ==
  LET w == loc["inv2"].wallets[i]
  IN  /\ w.status = "PENDING_BRIDGE"
      /\ w.bridgeAttempts < 3
      /\ w.destination # None
      /\ w.targetChain # None

(* Three or more sweeps were started one after the other, nothing else ran, *)
(* and the last has returned; a sweep that throws saves nothing, so the     *)
(* sweeps after it throw as well.                                           *)
ThreeSweepsDone ==
  /\ clock >= 3
  /\ pc["inv1"] = "idle"
  /\ res["inv1"].op = "retryPendingBridges"
  /\ ~res["inv1"].threw

(* C38: after three consecutive non-overlapping retryPendingBridges         *)
(* invocations that ran to completion, from any store and with no other     *)
(* operation in between, no record is PENDING_BRIDGE with destination and   *)
(* chain set and fewer than three attempts, and every record that was so at *)
(* the start is SETTLED or FAILED.                                          *)
C38_ThreeSweepsSettleOrFail ==
  ThreeSweepsDone =>
    \A i \in 1..Len(store) :
      /\ ~(/\ store[i].status = "PENDING_BRIDGE"
           /\ store[i].bridgeAttempts < 3
           /\ store[i].destination # None
           /\ store[i].targetChain # None)
      /\ AwaitedBridge(i) => store[i].status \in {"SETTLED", "FAILED"}

C38_Witness ==
  /\ ThreeSweepsDone
  /\ clock = 3
  /\ \E i \in 1..Len(store) :
       /\ AwaitedBridge(i)
       /\ loc["inv2"].wallets[i].bridgeAttempts = 0
       /\ store[i].status = "FAILED"
       /\ store[i].bridgeAttempts = 3

(* The store holds a record with that id and that PIN that can still be     *)
(* claimed.                                                                 *)
HoldsValidPair(walletId, pin) ==
  \E i \in 1..Len(store) :
    /\ store[i].id = walletId
    /\ store[i].pinHash = hashPin(pin)
    /\ store[i].status \in {"PENDING", "PENDING_BRIDGE"}

(* C39: no two records of the store share an id, and claimPinWallet(id,     *)
(* pin) called with the id and PIN of a PENDING or PENDING_BRIDGE record is *)
(* not rejected with "Invalid PIN".                                         *)
C39_IdNamesOneRecord ==
  /\ \A i, j \in 1..Len(store) : i # j => store[i].id # store[j].id
  /\ \A p \in Procs :
       (/\ pc[p] = "idle"
        /\ res[p].op = "claimPinWallet"
        /\ res[p].threw
        /\ res[p].error = "Invalid PIN") => ~HoldsValidPair(res[p].id, res[p].pin)

(* The operation whose step this is, for the invocation p that takes it.    *)
Acts(p) == pc'[p] # pc[p] \/ loc'[p] # loc[p] \/ res'[p] # res[p]

OpOf(p) ==
  IF pc[p] # "idle" THEN loc[p].op
  ELSE IF pc'[p] # "idle" THEN loc'[p].op
  ELSE res'[p].op

(* The record the invocation owns: the one settleToChain appended, the one  *)
(* claimPinWallet looked up.                                                *)
OwnRecord(p) == IF pc[p] # "idle" THEN loc[p].idx ELSE loc'[p].idx

OthersKept(own) ==
  \A i \in 1..Len(store) : i # own => (i <= Len(store') /\ store'[i] = store[i])

(* C40: for non-overlapping invocations settleToChain appends exactly one   *)
(* record and changes only that one, claimPinWallet changes only the record *)
(* it looked up, createPinWallet only appends; no operation removes a       *)
(* record or changes the id, pinHash, amount or createdAt of a record.      *)
C40_OnlyOwnRecordChanges ==
  [][/\ Len(store') >= Len(store)
     /\ \A i \in 1..Len(store) :
          /\ i <= Len(store')
          /\ store'[i].id = store[i].id
          /\ store'[i].pinHash = store[i].pinHash
          /\ store'[i].amount = store[i].amount
          /\ store'[i].createdAt = store[i].createdAt
     /\ \A p \in Procs :
          Acts(p) =>
            /\ OpOf(p) = "settleToChain" =>
                 IF pc[p] = "idle"
                   THEN /\ OthersKept(0)
                        /\ Len(store') = IF pc'[p] = "idle" THEN Len(store)
                                         ELSE Len(store) + 1
                        /\ pc'[p] # "idle" => OwnRecord(p) = Len(store')
                   ELSE Len(store') = Len(store) /\ OthersKept(OwnRecord(p))
            /\ OpOf(p) = "claimPinWallet" =>
                 Len(store') = Len(store) /\ OthersKept(OwnRecord(p))
            /\ OpOf(p) = "createPinWallet" =>
                 Len(store') <= Len(store) + 1 /\ OthersKept(0)]_vars

(* A settleToChain has appended its record next to an older one and a       *)
(* claimPinWallet has then settled the older one.                           *)
C40_Witness ==
  /\ Len(store) = 2
  /\ res["inv1"].op = "claimPinWallet"
  /\ res["inv1"].success
  /\ res["inv1"].idx = 1
  /\ store[1].status = "SETTLED"
  /\ store[2].status # "SETTLED"

====
